---- MODULE Spec2Model ----
(***************************************************************************)
(* Ribbon SFU: the rooms registry (server.js) and the Room class (room.js) *)
(* as a state machine.  Every RPC handler is an async function; each       *)
(* `await` on the media engine is a point where other handlers may run.    *)
(* An RPC is modelled by a "Start" action (the synchronous prefix up to    *)
(* the first engine round trip) and a "Done" action per engine round trip. *)
(* JavaScript objects have identity: a Room or a peer record captured      *)
(* before an await is the same object afterwards, whether or not the       *)
(* registry or the room's peer map still points to it.  Room objects, peer *)
(* records, transports, producers and consumers are therefore numbered in  *)
(* order of construction.  A JavaScript Map is modelled by the set of its  *)
(* keys where its insertion order is the order of the numbers, and by the  *)
(* sequence of its keys otherwise (a peer's transports).                   *)
(***************************************************************************)
EXTENDS Integers, Sequences, FiniteSets, Bags, TLC

RoomIds == {"r1"}
PeerIds == {"p1", "p2"}
Kinds == {"audio", "video"}
DisplayNames == {"Ann"}

\* config.numWorkers (its default)
NumWorkers == 1

\* the runs with several workers: config.numWorkers there
MaxWorkers == 3

\* how many handlers may be suspended at once
MaxInFlight == 2

\* the registry runs: Room objects and peer records ever constructed
MaxRouters == 2
MaxPeerObjs == 3

\* the media runs: one Room, and the objects ever constructed in it
MediaRouters == 1
MediaPeerObjs == 2
MaxTransports == 1
MaxProducers == 2
MaxConsumers == 1

\* the sequential runs: joins minus leaves issued per peer stays within -MaxNet..MaxNet
MaxNet == 2

\* the socket runs: non-blank lines received, and complete lines per chunk
MaxLines == 3
MaxChunk == 2

\* the browser runs: consume calls one client makes
MaxClientCalls == 3

VARIABLES
    rooms,          \* server.js `rooms`: roomId -> Room object (0 = no entry)
    nextWorkerIdx,  \* server.js `nextWorkerIdx`
    roomObjs,       \* the Room objects ever constructed, with their router
    peerObjs,       \* the peer records ever constructed by Room.addPeer
    transports,     \* the WebRtcTransport objects ever returned by the engine
    producers,      \* the Producer objects ever returned by the engine
    consumers,      \* the Consumer objects ever returned by the engine
    calls,          \* the RPC handlers suspended at an await
    reply,          \* the response written last by sendResponse
    running,        \* FALSE after shutdown() has called process.exit
    cap,            \* the bounds of the run; never changes
    allocs,         \* history: the workers returned by the latest cap.workers calls of getNextWorker
    joined,         \* history: <<roomId, peerId>> whose join was answered and who has not left since
    net,            \* history: per <<roomId, peerId>>, joins minus leaves issued (sequential runs)
    sock,           \* one connection to the RPC socket: its buffer, its requests and the responses written
    client,         \* one browser: app.js and ourtc.js state, what it has emitted and what is on its way to it
    gate,           \* the gateway's rooms: access mode, host and peer states
    invites,        \* the gateway's invite tokens and the ResolveInvite outcomes
    e2ee,           \* the e2ee workers of the participants of one room and the frames they emit
    feed,           \* one RPC connection at the level of bytes: what is still to arrive, the buffer, the lines handed on
    ui              \* one browser across reconnects: listeners, handles, mute indicators

vars == <<rooms, nextWorkerIdx, roomObjs, peerObjs, transports, producers,
          consumers, calls, reply, running, cap, allocs, joined, net, sock, client, gate,
          invites, e2ee, feed, ui>>

Pairs == RoomIds \X PeerIds

NoReply ==
    [method |-> "none", roomId |-> "", peerId |-> "", ok |-> TRUE, error |-> "",
     room |-> 0, id |-> 0, peers |-> {}, closedProducers |-> {}, producers |-> {},
     nth |-> 0]

Result(method, r, p) ==
    [NoReply EXCEPT !.method = method, !.roomId = r, !.peerId = p]

Failure(method, r, p, msg) ==
    [NoReply EXCEPT !.method = method, !.roomId = r, !.peerId = p,
                    !.ok = FALSE, !.error = msg]

NoCall ==
    [method |-> "none", roomId |-> "", peerId |-> "", pc |-> "", room |-> 0,
     peer |-> 0, worker |-> 0, transport |-> 0, target |-> 0, kind |-> "",
     consuming |-> FALSE, displayName |-> "", after |-> {}]

Call(method, r, p, pc) ==
    [NoCall EXCEPT !.method = method, !.roomId = r, !.peerId = p, !.pc = pc]

\* the suspended handlers form a bag: two identical requests may be in flight
Suspend(c) == calls (+) SetToBag({c})

Resume(c) == calls (-) SetToBag({c})

InFlight == BagToSet(calls)

Pending(pcs) ==
    BagCardinality([c \in {d \in InFlight : d.pc \in pcs} |-> calls[c]])

----------------------------------------------------------------------------
(* room.js: the Room class, as functions of the object tables.             *)

NoPeers == [p \in PeerIds |-> 0]

Range(s) == {s[i] : i \in DOMAIN s}

\* new Room(roomId, router); routerCloses counts the router.close() calls
NewRoom(r) == [roomId |-> r, peers |-> NoPeers, routerCloses |-> 0]

\* transports keeps the insertion order of the Map (consume takes the first)
NewPeer(n) == [displayName |-> n, transports |-> <<>>, producers |-> {}, consumers |-> {}]

hasPeer(ro, o, p) == ro[o].peers[p] # 0

PeerKeys(ro, o) == {p \in PeerIds : ro[o].peers[p] # 0}

getPeerCount(ro, o) == Cardinality(PeerKeys(ro, o))

getPeerList(ro, po, o) ==
    {[peerId |-> p, displayName |-> po[ro[o].peers[p]].displayName,
      producers |-> po[ro[o].peers[p]].producers] : p \in PeerKeys(ro, o)}

\* addPeer: a peer id already in the map keeps its record
addPeerRooms(ro, po, o, p) ==
    IF hasPeer(ro, o, p) THEN ro
    ELSE [ro EXCEPT ![o].peers[p] = Len(po) + 1]

\* addPeer without the test for a peer id already in the map
addPeerObjsAlways(ro, po, o, p, n) == Append(po, NewPeer(n))

addPeerObjs(ro, po, o, p, n) ==
    IF hasPeer(ro, o, p) THEN po ELSE Append(po, NewPeer(n))

\* transport.close() for every transport of T that is still open: the
\* producers and consumers on it are closed and emit 'transportclose', whose
\* handlers (room.js 125-127, 165-167) delete them from the captured peer record
Open(tr, T) == {t \in T : t \in DOMAIN tr /\ ~tr[t].closed}

\* atEngine follows the close request transport.close() sends to the worker
closeTransports(tr, T) ==
    [t \in DOMAIN tr |-> IF t \in Open(tr, T)
                         THEN [tr[t] EXCEPT !.closed = TRUE, !.atEngine = "closing"]
                         ELSE tr[t]]

ProducersOn(tr, pr, T) ==
    {x \in DOMAIN pr : pr[x].transport \in Open(tr, T) /\ ~pr[x].closed}

ConsumersOn(tr, co, T) ==
    {c \in DOMAIN co : co[c].transport \in Open(tr, T) /\ ~co[c].closed}

closeProducersOn(tr, pr, T) ==
    [x \in DOMAIN pr |-> IF x \in ProducersOn(tr, pr, T) THEN [pr[x] EXCEPT !.closed = TRUE] ELSE pr[x]]

closeConsumersOn(tr, co, T) ==
    [c \in DOMAIN co |-> IF c \in ConsumersOn(tr, co, T) THEN [co[c] EXCEPT !.closed = TRUE] ELSE co[c]]

\* producers and consumers without their 'transportclose' handlers
transportcloseHandlersNone(tr, pr, co, po, T) == po

transportcloseHandlers(tr, pr, co, po, T) ==
    [k \in DOMAIN po |->
        [po[k] EXCEPT
            !.producers = @ \ {x \in ProducersOn(tr, pr, T) : pr[x].peer = k},
            !.consumers = @ \ {c \in ConsumersOn(tr, co, T) : co[c].peer = k}]]

\* removePeer with the ids taken from the producers' appData.peerId, whatever
\* their state, instead of from the peer's producers map
removePeerResultByOwner(ro, po, o, p) ==
    {x \in DOMAIN producers : producers[x].peerId = p}

\* removePeer: the producer ids are collected before the transports close
removePeerResult(ro, po, o, p) ==
    IF hasPeer(ro, o, p) THEN po[ro[o].peers[p]].producers ELSE {}

\* removePeer without the loop that closes the peer's transports
removePeerTransportsNone(ro, po, o, p) == {}

\* removePeer: the transports it closes
removePeerTransports(ro, po, o, p) ==
    IF hasPeer(ro, o, p) THEN Range(po[ro[o].peers[p]].transports) ELSE {}

\* removePeer without this.peers.delete(peerId)
removePeerKeeps(ro, o, p) == ro

\* the peer deleted only once the worker has closed all its transports
removePeerRoomsWhenClosed(ro, o, p) ==
    IF ro[o].peers[p] # 0 /\
       \A t \in Range(peerObjs[ro[o].peers[p]].transports) : transports[t].atEngine = "closed"
    THEN [ro EXCEPT ![o].peers[p] = 0]
    ELSE ro

removePeerRooms(ro, o, p) == [ro EXCEPT ![o].peers[p] = 0]

\* Room.close(): close the transports of the peers in the map, clear the map,
\* close the router; router.close() closes every transport made on the router
RouterTransports(tr, o) == {t \in DOMAIN tr : tr[t].router = o}

RoomCloseTransports(ro, po, tr, o) ==
    (UNION {Range(po[ro[o].peers[p]].transports) : p \in PeerKeys(ro, o)}) \cup RouterTransports(tr, o)

RoomCloseRooms(ro, o) ==
    [ro EXCEPT ![o].peers = NoPeers, ![o].routerCloses = @ + 1]

\* getProducersForPeer without the `continue` that skips the asking peer
getProducersForPeerAll(ro, po, pr, o, p) ==
    {[producerId |-> x, peerId |-> q, kind |-> pr[x].kind] :
        <<q, x>> \in {y \in PeerIds \X DOMAIN pr :
                        /\ hasPeer(ro, o, y[1])
                        /\ y[2] \in po[ro[o].peers[y[1]]].producers}}

\* getProducersForPeer: the producers of the OTHER peers of the room
getProducersForPeer(ro, po, pr, o, p) ==
    {[producerId |-> x, peerId |-> q, kind |-> pr[x].kind] :
        <<q, x>> \in {y \in PeerIds \X DOMAIN pr :
                        /\ y[1] # p
                        /\ hasPeer(ro, o, y[1])
                        /\ y[2] \in po[ro[o].peers[y[1]]].producers}}

----------------------------------------------------------------------------
(* server.js                                                               *)

getNextWorker == nextWorkerIdx

\* the index advanced without wrapping
AdvanceWorkerNoWrap == nextWorkerIdx + 1

AdvanceWorker == (nextWorkerIdx + 1) % cap.workers

\* history: the latest cap.workers picks, oldest first
Picked(w) ==
    IF Len(allocs) < cap.workers THEN Append(allocs, w) ELSE Append(Tail(allocs), w)

\* a connection just accepted: nothing buffered, received or written
NoSock ==
    [buffered |-> FALSE, lines |-> <<>>, awaiting |-> {}, written |-> <<>>, unhandled |-> {}]

\* a page just loaded: no handler has run, nothing emitted or received
NoClient ==
    [handler |-> "none", todo |-> <<>>, plist |-> <<>>, listeners |-> <<>>, calls |-> <<>>,
     wire |-> <<>>, inbox |-> <<>>, consumersMap |-> <<>>, chat |-> FALSE, notices |-> 0]

\* the peers of the approval runs
GatePeers == PeerIds \cup {"p3"}

\* no room exists at the gateway, nobody has asked to join
NoGateRoom ==
    [exists |-> FALSE, mode |-> "open", host |-> "", state |-> [p \in GatePeers |-> "none"],
     early |-> {}, direct |-> {}, contenders |-> {}]

NoGate == [r \in RoomIds |-> NoGateRoom]

\* no invite token has been created, no ResolveInvite has been answered
NoInvites == [tokens |-> <<>>, pending |-> {}, outcomes |-> <<>>]


Participants == {"A", "B"}

\* let keyId = new Uint8Array(4): zeros until a key has been imported
NoKeyId == "0000"

NewWorker ==
    [exists |-> FALSE, posted |-> FALSE, importing |-> FALSE, encryptionKey |-> "",
     keyId |-> NoKeyId, encryptCounter |-> 0, encrypting |-> {}]

NoFrame == [by |-> "", frame |-> 0, type |-> "", data |-> <<>>, orig |-> <<>>,
            posted |-> FALSE, how |-> "none", key |-> ""]

NoOutcome == [by |-> "", input |-> NoFrame, keyed |-> FALSE, out |-> "none", data |-> <<>>]

\* no worker yet, no frame handled
NoE2ee ==
    [workers |-> [w \in Participants |-> NewWorker], inits |-> 0, frames |-> 0,
     used |-> {}, sent |-> NoFrame, got |-> NoOutcome]

\* a connection on which nothing is to arrive: let buffer = ''
NoFeed == [stream |-> <<>>, rest |-> <<>>, buffer |-> <<>>, handed |-> <<>>]

\* the page before the socket has connected: no roomJoined handled, nothing
\* registered, the remote peer's producers running and no indicator shown
NoUi ==
    [joins |-> 0, chatListeners |-> 0, clickListeners |-> 0, keyListeners |-> 0,
     held |-> 0, open |-> {}, sends |-> 0, emitted |-> 0, incoming |-> 0, rendered |-> 0,
     paused |-> [k \in Kinds |-> FALSE], wire |-> <<>>, micMuted |-> FALSE,
     last |-> [type |-> "none", kind |-> "", before |-> FALSE]]

Caps(routers, peers, ts, ps, cs) ==
    [routers |-> routers, peerObjs |-> peers, transports |-> ts, producers |-> ps,
     consumers |-> cs, inFlight |-> MaxInFlight, workers |-> NumWorkers]

InitRest(c) ==
    /\ cap = c
    /\ rooms = [r \in RoomIds |-> 0]
    /\ nextWorkerIdx = 0
    /\ roomObjs = <<>>
    /\ peerObjs = <<>>
    /\ transports = <<>>
    /\ producers = <<>>
    /\ consumers = <<>>
    /\ calls = EmptyBag
    /\ reply = NoReply
    /\ running = TRUE
    /\ allocs = <<>>
    /\ sock = NoSock
    /\ client = NoClient
    /\ gate = NoGate
    /\ invites = NoInvites
    /\ e2ee = NoE2ee
    /\ ui = NoUi
    /\ joined = {}
    /\ net = [x \in Pairs |-> 0]

InitWith(c) == InitRest(c) /\ feed = NoFeed

\* the run with every handler: one Room, one peer record, one of each media object
Init == InitWith(Caps(MediaRouters, 1, MaxTransports, 1, MaxConsumers))

engine == <<transports, producers, consumers>>

\* what only getOrCreateRoom writes, or nothing does
aside == <<invites, e2ee, feed, ui>>

outer == <<sock, client, gate, aside>>

fixed == <<cap, allocs, outer>>

history == <<fixed, joined, net>>

CanStart == running /\ BagCardinality(calls) < cap.inFlight

Suspended(c, pcs) == running /\ c \in InFlight /\ c.pc \in pcs

\* getOrCreateRoom up to its await: an existing room is returned (the caller's
\* await still yields once); otherwise a worker is picked and createRouter is
\* awaited
GetOrCreateRoomStart(method, r, p, n) ==
    /\ CanStart
    /\ IF rooms[r] # 0
       THEN /\ calls' = Suspend([Call(method, r, p, "gotRoom") EXCEPT
                                    !.displayName = n, !.room = rooms[r],
                                    !.after = IF method = "join"
                                              THEN {q \in PeerIds : <<r, q>> \in joined} ELSE {}])
            /\ UNCHANGED <<nextWorkerIdx, allocs>>
       ELSE /\ Len(roomObjs) + Pending({"createRouter"}) < cap.routers
            /\ calls' = Suspend([Call(method, r, p, "createRouter") EXCEPT
                                    !.displayName = n, !.worker = getNextWorker,
                                    !.after = IF method = "join"
                                              THEN {q \in PeerIds : <<r, q>> \in joined} ELSE {}])
            /\ nextWorkerIdx' = AdvanceWorker
            /\ allocs' = Picked(getNextWorker)
    /\ UNCHANGED <<rooms, roomObjs, peerObjs, engine, reply, running, cap, joined, net, outer>>

GetRouterRtpCapabilitiesStart(r) ==
    GetOrCreateRoomStart("getRouterRtpCapabilities", r, "", "")

JoinStart(r, p, n) ==
    /\ Len(peerObjs) + Pending({"gotRoom", "createRouter"}) < cap.peerObjs
    /\ GetOrCreateRoomStart("join", r, p, n)

\* the rest of a join or getRouterRtpCapabilities handler once it holds Room o
HandlerTail(c, ro, o) ==
    IF c.method = "join"
    THEN /\ roomObjs' = addPeerRooms(ro, peerObjs, o, c.peerId)
         /\ peerObjs' = addPeerObjs(ro, peerObjs, o, c.peerId, c.displayName)
         /\ reply' = [Result("join", c.roomId, c.peerId) EXCEPT
                        !.room = o,
                        !.peers = getPeerList(roomObjs', peerObjs', o)]
         /\ joined' = joined \cup {<<c.roomId, c.peerId>>}
    ELSE /\ roomObjs' = ro
         /\ peerObjs' = peerObjs
         /\ reply' = [Result("getRouterRtpCapabilities", c.roomId, "") EXCEPT !.room = o]
         /\ joined' = joined

\* the await on an existing room resumes
GotRoom(c) ==
    /\ Suspended(c, {"gotRoom"})
    /\ HandlerTail(c, roomObjs, c.room)
    /\ calls' = Resume(c)
    /\ UNCHANGED <<rooms, nextWorkerIdx, engine, running, fixed, net>>

\* worker.createRouter resolves: new Room, rooms.set, and the handler goes on
CreateRouterDone(c) ==
    /\ Suspended(c, {"createRouter"})
    /\ LET o == Len(roomObjs) + 1
           ro == Append(roomObjs, NewRoom(c.roomId))
       IN /\ rooms' = [rooms EXCEPT ![c.roomId] = o]
          /\ HandlerTail(c, ro, o)
    /\ calls' = Resume(c)
    /\ UNCHANGED <<nextWorkerIdx, engine, running, fixed, net>>

\* an awaited engine request rejects: the handler throws and processMessage
\* answers with the error; nothing else is touched
EnginePcs ==
    {"createRouter", "createTransport", "connect", "produce", "consume",
     "resumeConsumer", "pauseProducer", "resumeProducer", "reject"}

\* a failed createRouter that leaves a Room registered under the room id
EngineRejectRegistering(c) ==
    /\ Suspended(c, EnginePcs)
    /\ reply' = Failure(c.method, c.roomId, c.peerId, "Engine error")
    /\ calls' = Resume(c)
    /\ IF c.pc = "createRouter"
       THEN /\ roomObjs' = Append(roomObjs, NewRoom(c.roomId))
            /\ rooms' = [rooms EXCEPT ![c.roomId] = Len(roomObjs) + 1]
       ELSE UNCHANGED <<rooms, roomObjs>>
    /\ UNCHANGED <<nextWorkerIdx, peerObjs, engine, running, history>>

EngineReject(c) ==
    /\ Suspended(c, EnginePcs)
    /\ reply' = Failure(c.method, c.roomId, c.peerId, "Engine error")
    /\ calls' = Resume(c)
    /\ UNCHANGED <<rooms, nextWorkerIdx, roomObjs, peerObjs, engine, running, history>>

\* history: 2 when the response written last was the one to a leave of the
\* same room and peer id, else 1
Nth(r, p) ==
    IF reply.method = "leave" /\ reply.roomId = r /\ reply.peerId = p THEN 2 ELSE 1

\* the leave handler together with deleteRoom; it has no await
LeaveEffect(r, p) ==
    IF rooms[r] = 0
    THEN /\ reply' = [Result("leave", r, p) EXCEPT !.nth = Nth(r, p)]
         /\ UNCHANGED <<rooms, roomObjs, peerObjs, engine>>
    ELSE LET o  == rooms[r]
             T1 == removePeerTransports(roomObjs, peerObjs, o, p)
             tr1 == closeTransports(transports, T1)
             pr1 == closeProducersOn(transports, producers, T1)
             co1 == closeConsumersOn(transports, consumers, T1)
             po1 == transportcloseHandlers(transports, producers, consumers, peerObjs, T1)
             ro1 == removePeerRooms(roomObjs, o, p)
         IN /\ reply' = [Result("leave", r, p) EXCEPT
                           !.nth = Nth(r, p),
                           !.closedProducers = removePeerResult(roomObjs, peerObjs, o, p)]
            /\ IF getPeerCount(ro1, o) = 0
               THEN LET T2 == RoomCloseTransports(ro1, po1, tr1, o)
                    IN /\ transports' = closeTransports(tr1, T2)
                       /\ producers' = closeProducersOn(tr1, pr1, T2)
                       /\ consumers' = closeConsumersOn(tr1, co1, T2)
                       /\ peerObjs' = transportcloseHandlers(tr1, pr1, co1, po1, T2)
                       /\ roomObjs' = RoomCloseRooms(ro1, o)
                       /\ rooms' = [rooms EXCEPT ![r] = 0]
               ELSE /\ transports' = tr1
                    /\ producers' = pr1
                    /\ consumers' = co1
                    /\ peerObjs' = po1
                    /\ roomObjs' = ro1
                    /\ rooms' = rooms

ForgetPeer(r, p) ==
    LET f(c) == IF c.roomId = r THEN [c EXCEPT !.after = @ \ {p}] ELSE c
        G(S) == {c \in InFlight : f(c) = S}
    IN [d \in {f(c) : c \in InFlight} |->
            BagCardinality([c \in G(d) |-> calls[c]])]

Leave(r, p) ==
    /\ running
    /\ LeaveEffect(r, p)
    /\ calls' = ForgetPeer(r, p)
    /\ joined' = joined \ {<<r, p>>}
    /\ UNCHANGED <<nextWorkerIdx, running, fixed, net>>

\* the lookups every other handler starts with
Lookup(method, r, p) ==
    IF rooms[r] = 0 THEN Failure(method, r, p, "Room not found")
    ELSE IF ~hasPeer(roomObjs, rooms[r], p) THEN Failure(method, r, p, "Peer not found")
    ELSE Result(method, r, p)

PeerOf(r, p) == roomObjs[rooms[r]].peers[p]

\* an error path that also drops the registry entries
ThrowDroppingRooms(e) ==
    /\ reply' = e
    /\ rooms' = [r \in RoomIds |-> 0]
    /\ UNCHANGED <<nextWorkerIdx, roomObjs, peerObjs, engine, calls, running, history>>

Throw(e) ==
    /\ reply' = e
    /\ UNCHANGED <<rooms, nextWorkerIdx, roomObjs, peerObjs, engine, calls, running, history>>

Await(c) ==
    /\ calls' = Suspend(c)
    /\ UNCHANGED <<rooms, nextWorkerIdx, roomObjs, peerObjs, engine, reply, running, history>>

\* a request on an engine object that is already closed can only reject
PcFor(closed, pc) == IF closed THEN "reject" ELSE pc

CreateWebRtcTransportStart(r, p, consuming) ==
    /\ running
    /\ IF ~Lookup("createWebRtcTransport", r, p).ok
       THEN Throw(Lookup("createWebRtcTransport", r, p))
       ELSE /\ CanStart
            /\ Len(transports) + Pending({"createTransport"}) < cap.transports
            /\ Await([Call("createWebRtcTransport", r, p,
                           PcFor(roomObjs[rooms[r]].routerCloses > 0, "createTransport")) EXCEPT
                        !.room = rooms[r], !.peer = PeerOf(r, p), !.consuming = consuming])

\* router.createWebRtcTransport resolves; setMaxIncomingBitrate is awaited next
CreateTransportDone(c) ==
    /\ Suspended(c, {"createTransport"})
    /\ transports' = Append(transports,
            [router |-> c.room, peerId |-> c.peerId, consuming |-> FALSE,
             connected |-> FALSE, closed |-> FALSE, atEngine |-> "open"])
    /\ calls' = Resume(c) (+) SetToBag({[c EXCEPT !.pc = "setMaxIncomingBitrate",
                                                  !.transport = Len(transports) + 1]})
    /\ UNCHANGED <<rooms, nextWorkerIdx, roomObjs, peerObjs, producers, consumers,
                   reply, running, history>>

\* setMaxIncomingBitrate settles (a rejection is swallowed): the transport is
\* put into the captured peer record, and the handler marks it as consuming
\* if the room's current record for the peer id holds it
MarkConsuming(c, po) ==
    /\ c.consuming
    /\ hasPeer(roomObjs, c.room, c.peerId)
    /\ c.transport \in Range(po[roomObjs[c.room].peers[c.peerId]].transports)

SetMaxIncomingBitrateDone(c) ==
    /\ Suspended(c, {"setMaxIncomingBitrate"})
    /\ peerObjs' = [peerObjs EXCEPT ![c.peer].transports = Append(@, c.transport)]
    /\ transports' = IF MarkConsuming(c, peerObjs')
                     THEN [transports EXCEPT ![c.transport].consuming = TRUE]
                     ELSE transports
    /\ reply' = [Result("createWebRtcTransport", c.roomId, c.peerId) EXCEPT
                    !.id = c.transport]
    /\ calls' = Resume(c)
    /\ UNCHANGED <<rooms, nextWorkerIdx, roomObjs, producers, consumers, running, history>>

\* the transport looked up among all transports instead of in the peer's map
HasTransportOfAnyPeer(r, p, t) == t \in DOMAIN transports

HasTransport(r, p, t) == t \in Range(peerObjs[PeerOf(r, p)].transports)

ConnectTransportStart(r, p, t) ==
    /\ running
    /\ IF ~Lookup("connectTransport", r, p).ok
       THEN Throw(Lookup("connectTransport", r, p))
       ELSE IF ~HasTransport(r, p, t)
       THEN Throw(Failure("connectTransport", r, p, "Transport not found"))
       ELSE CanStart /\ Await([Call("connectTransport", r, p,
                        PcFor(transports[t].closed \/ transports[t].connected, "connect")) EXCEPT
                     !.room = rooms[r], !.peer = PeerOf(r, p), !.transport = t])

ConnectTransportDone(c) ==
    /\ Suspended(c, {"connect"})
    /\ ~transports[c.transport].connected
    /\ transports' = IF transports[c.transport].closed THEN transports
                     ELSE [transports EXCEPT ![c.transport].connected = TRUE]
    /\ reply' = Result("connectTransport", c.roomId, c.peerId)
    /\ calls' = Resume(c)
    /\ UNCHANGED <<rooms, nextWorkerIdx, roomObjs, peerObjs, producers, consumers,
                   running, history>>

ProduceStart(r, p, t, kind) ==
    /\ running
    /\ IF ~Lookup("produce", r, p).ok
       THEN Throw(Lookup("produce", r, p))
       ELSE IF ~HasTransport(r, p, t)
       THEN Throw(Failure("produce", r, p, "Transport not found"))
       ELSE /\ CanStart
            /\ Len(producers) + Pending({"produce"}) < cap.producers
            /\ Await([Call("produce", r, p, PcFor(transports[t].closed, "produce")) EXCEPT
                        !.room = rooms[r], !.peer = PeerOf(r, p), !.transport = t,
                        !.kind = kind])

\* transport.produce resolves: the producer is put into the captured peer record
produceRegister(po, c, x) == [po EXCEPT ![c.peer].producers = @ \cup {x}]

ProduceDone(c) ==
    /\ Suspended(c, {"produce"})
    /\ producers' = Append(producers,
            [transport |-> c.transport, peer |-> c.peer, peerId |-> c.peerId,
             kind |-> c.kind, paused |-> FALSE, closed |-> FALSE])
    /\ peerObjs' = produceRegister(peerObjs, c, Len(producers) + 1)
    /\ reply' = [Result("produce", c.roomId, c.peerId) EXCEPT
                    !.id = Len(producers) + 1]
    /\ calls' = Resume(c)
    /\ UNCHANGED <<rooms, nextWorkerIdx, roomObjs, transports, consumers, running, history>>

\* router.canConsume: the producer must be open on this router and the
\* capabilities must match
canConsume(o, x, compatible) ==
    /\ x \in DOMAIN producers
    /\ ~producers[x].closed
    /\ transports[producers[x].transport].router = o
    /\ compatible

\* the first transport marked consuming, else the first transport, else none
recvTransport(po, k) ==
    LET ts == po[k].transports
        marked == {i \in DOMAIN ts : transports[ts[i]].consuming}
    IN IF marked # {} THEN ts[CHOOSE i \in marked : \A j \in marked : i <= j]
       ELSE IF ts # <<>> THEN ts[1]
       ELSE 0

ConsumeStart(r, p, x, compatible) ==
    /\ running
    /\ IF ~Lookup("consume", r, p).ok
       THEN Throw(Lookup("consume", r, p))
       ELSE IF ~canConsume(rooms[r], x, compatible)
       THEN Throw(Failure("consume", r, p, "Cannot consume"))
       ELSE IF recvTransport(peerObjs, PeerOf(r, p)) = 0
       THEN Throw(Failure("consume", r, p, "No transport for consuming"))
       ELSE /\ CanStart
            /\ Len(consumers) + Pending({"consume"}) < cap.consumers
            /\ Await([Call("consume", r, p,
                           PcFor(transports[recvTransport(peerObjs, PeerOf(r, p))].closed,
                                 "consume")) EXCEPT
                        !.room = rooms[r], !.peer = PeerOf(r, p), !.target = x,
                        !.transport = recvTransport(peerObjs, PeerOf(r, p))])

\* recvTransport.consume without `paused: true`
newConsumerForwarding(c) ==
    [transport |-> c.transport, peer |-> c.peer, producerId |-> c.target,
     paused |-> FALSE, closed |-> FALSE]

\* recvTransport.consume({producerId, rtpCapabilities, paused: true})
newConsumer(c) ==
    [transport |-> c.transport, peer |-> c.peer, producerId |-> c.target,
     paused |-> TRUE, closed |-> FALSE]

ConsumeDone(c) ==
    /\ Suspended(c, {"consume"})
    /\ consumers' = Append(consumers, newConsumer(c))
    /\ peerObjs' = [peerObjs EXCEPT ![c.peer].consumers = @ \cup {Len(consumers) + 1}]
    /\ reply' = [Result("consume", c.roomId, c.peerId) EXCEPT
                    !.id = Len(consumers) + 1]
    /\ calls' = Resume(c)
    /\ UNCHANGED <<rooms, nextWorkerIdx, roomObjs, transports, producers, running, history>>

ResumeConsumerStart(r, p, k) ==
    /\ running
    /\ IF ~Lookup("resumeConsumer", r, p).ok
       THEN Throw(Lookup("resumeConsumer", r, p))
       ELSE IF k \notin peerObjs[PeerOf(r, p)].consumers
       THEN Throw(Failure("resumeConsumer", r, p, "Consumer not found"))
       ELSE CanStart /\ Await([Call("resumeConsumer", r, p, "resumeConsumer") EXCEPT
                     !.room = rooms[r], !.peer = PeerOf(r, p), !.target = k])

PauseProducerStart(r, p, x) ==
    /\ running
    /\ IF ~Lookup("pauseProducer", r, p).ok
       THEN Throw(Lookup("pauseProducer", r, p))
       ELSE IF x \notin peerObjs[PeerOf(r, p)].producers
       THEN Throw(Failure("pauseProducer", r, p, "Producer not found"))
       ELSE CanStart /\ Await([Call("pauseProducer", r, p, "pauseProducer") EXCEPT
                     !.room = rooms[r], !.peer = PeerOf(r, p), !.target = x])

ResumeProducerStart(r, p, x) ==
    /\ running
    /\ IF ~Lookup("resumeProducer", r, p).ok
       THEN Throw(Lookup("resumeProducer", r, p))
       ELSE IF x \notin peerObjs[PeerOf(r, p)].producers
       THEN Throw(Failure("resumeProducer", r, p, "Producer not found"))
       ELSE CanStart /\ Await([Call("resumeProducer", r, p, "resumeProducer") EXCEPT
                     !.room = rooms[r], !.peer = PeerOf(r, p), !.target = x])

\* consumer.resume / producer.pause / producer.resume resolve
PauseResumeDone(c) ==
    /\ Suspended(c, {"resumeConsumer", "pauseProducer", "resumeProducer"})
    /\ IF c.pc = "resumeConsumer"
       THEN /\ consumers' = [consumers EXCEPT ![c.target].paused = FALSE]
            /\ producers' = producers
       ELSE /\ producers' = [producers EXCEPT ![c.target].paused = (c.pc = "pauseProducer")]
            /\ consumers' = consumers
    /\ reply' = Result(c.method, c.roomId, c.peerId)
    /\ calls' = Resume(c)
    /\ UNCHANGED <<rooms, nextWorkerIdx, roomObjs, peerObjs, transports, running, history>>

\* closeProducer has no await before its effect
CloseProducer(r, p, x) ==
    /\ running
    /\ IF ~Lookup("closeProducer", r, p).ok
       THEN Throw(Lookup("closeProducer", r, p))
       ELSE IF x \notin peerObjs[PeerOf(r, p)].producers
       THEN Throw(Failure("closeProducer", r, p, "Producer not found"))
       ELSE /\ producers' = [producers EXCEPT ![x].closed = TRUE]
            /\ peerObjs' = [peerObjs EXCEPT ![PeerOf(r, p)].producers = @ \ {x}]
            /\ reply' = Result("closeProducer", r, p)
            /\ UNCHANGED <<rooms, nextWorkerIdx, roomObjs, transports, consumers, calls,
                           running, history>>

GetProducers(r, p) ==
    /\ running
    /\ reply' = IF rooms[r] = 0 THEN Result("getProducers", r, p)
                ELSE [Result("getProducers", r, p) EXCEPT
                        !.producers = getProducersForPeer(roomObjs, peerObjs, producers,
                                                          rooms[r], p)]
    /\ UNCHANGED <<rooms, nextWorkerIdx, roomObjs, peerObjs, engine, calls, running, history>>

\* the engine tells a consumer that its producer has closed: 'producerclose'
\* (room.js 169-171)
ProducerCloseNotification(k) ==
    /\ running
    /\ k \in DOMAIN consumers
    /\ ~consumers[k].closed
    /\ producers[consumers[k].producerId].closed
    /\ consumers' = [consumers EXCEPT ![k].closed = TRUE]
    /\ peerObjs' = [peerObjs EXCEPT ![consumers[k].peer].consumers = @ \ {k}]
    /\ UNCHANGED <<rooms, nextWorkerIdx, roomObjs, transports, producers, calls, reply,
                   running, history>>

\* 'dtlsstatechange' with state 'closed' (room.js 85-89): transport.close()
DtlsStateClosed(t) ==
    /\ running
    /\ t \in DOMAIN transports
    /\ transports[t].connected
    /\ ~transports[t].closed
    /\ t \in UNION {Range(peerObjs[k].transports) : k \in DOMAIN peerObjs}
    /\ transports' = closeTransports(transports, {t})
    /\ producers' = closeProducersOn(transports, producers, {t})
    /\ consumers' = closeConsumersOn(transports, consumers, {t})
    /\ peerObjs' = transportcloseHandlers(transports, producers, consumers, peerObjs, {t})
    /\ UNCHANGED <<rooms, nextWorkerIdx, roomObjs, calls, reply, running, history>>

\* the worker settles the close request of a closed transport, or the request
\* fails; transport.close() has returned long before and ignores the outcome
CloseRequestSettles(t, done) ==
    /\ running
    /\ t \in DOMAIN transports
    /\ transports[t].atEngine = "closing"
    /\ transports' = [transports EXCEPT ![t].atEngine = IF done THEN "closed" ELSE "failed"]
    /\ UNCHANGED <<rooms, nextWorkerIdx, roomObjs, peerObjs, producers, consumers,
                   calls, reply, running, history>>

\* a method name handleRpcRequest has no case for: the default case throws
UnknownMethod(r, p) ==
    /\ running
    /\ Throw(Failure("unknown", r, p, "Unknown method"))

\* shutdown: room.close() for every registered room, worker.close() for every
\* worker (which closes the routers still open on it), process.exit
Registered == {rooms[r] : r \in RoomIds} \ {0}

StillOpen(ro) == {o \in DOMAIN ro : ro[o].routerCloses = 0}

shutdown ==
    /\ running
    /\ LET ro1 == [o \in DOMAIN roomObjs |->
                     IF o \in Registered THEN RoomCloseRooms(roomObjs, o)[o] ELSE roomObjs[o]]
           ro2 == [o \in DOMAIN ro1 |->
                     IF o \in StillOpen(ro1) THEN [ro1[o] EXCEPT !.routerCloses = @ + 1]
                     ELSE ro1[o]]
           T == DOMAIN transports
       IN /\ roomObjs' = ro2
          /\ transports' = closeTransports(transports, T)
          /\ producers' = closeProducersOn(transports, producers, T)
          /\ consumers' = closeConsumersOn(transports, consumers, T)
          /\ peerObjs' = transportcloseHandlers(transports, producers, consumers, peerObjs, T)
    /\ running' = FALSE
    /\ calls' = EmptyBag
    /\ UNCHANGED <<rooms, nextWorkerIdx, reply, history>>

\* the ids a request may name: those the run can construct
TransportIds == 1..cap.transports

ProducerIds == 1..cap.producers

ConsumerIds == 1..cap.consumers

Next ==
    \/ \E r \in RoomIds : GetRouterRtpCapabilitiesStart(r)
    \/ \E r \in RoomIds, p \in PeerIds, n \in DisplayNames : JoinStart(r, p, n)
    \/ \E c \in InFlight : GotRoom(c)
    \/ \E c \in InFlight : CreateRouterDone(c)
    \/ \E c \in InFlight : EngineReject(c)
    \/ \E r \in RoomIds, p \in PeerIds : Leave(r, p)
    \/ \E r \in RoomIds, p \in PeerIds, b \in BOOLEAN : CreateWebRtcTransportStart(r, p, b)
    \/ \E c \in InFlight : CreateTransportDone(c)
    \/ \E c \in InFlight : SetMaxIncomingBitrateDone(c)
    \/ \E r \in RoomIds, p \in PeerIds, t \in TransportIds : ConnectTransportStart(r, p, t)
    \/ \E c \in InFlight : ConnectTransportDone(c)
    \/ \E r \in RoomIds, p \in PeerIds, t \in TransportIds, k \in Kinds : ProduceStart(r, p, t, k)
    \/ \E c \in InFlight : ProduceDone(c)
    \/ \E r \in RoomIds, p \in PeerIds, x \in ProducerIds, b \in BOOLEAN : ConsumeStart(r, p, x, b)
    \/ \E c \in InFlight : ConsumeDone(c)
    \/ \E r \in RoomIds, p \in PeerIds, k \in ConsumerIds : ResumeConsumerStart(r, p, k)
    \/ \E r \in RoomIds, p \in PeerIds, x \in ProducerIds : PauseProducerStart(r, p, x)
    \/ \E r \in RoomIds, p \in PeerIds, x \in ProducerIds : ResumeProducerStart(r, p, x)
    \/ \E c \in InFlight : PauseResumeDone(c)
    \/ \E r \in RoomIds, p \in PeerIds, x \in ProducerIds : CloseProducer(r, p, x)
    \/ \E r \in RoomIds, p \in PeerIds : GetProducers(r, p)
    \/ \E k \in ConsumerIds : ProducerCloseNotification(k)
    \/ \E t \in TransportIds : DtlsStateClosed(t)
    \/ \E r \in RoomIds, p \in PeerIds : UnknownMethod(r, p)
    \/ shutdown

Spec == Init /\ [][Next]_vars

NextRegistry ==
    \/ \E r \in RoomIds : GetRouterRtpCapabilitiesStart(r)
    \/ \E r \in RoomIds, p \in PeerIds, n \in DisplayNames : JoinStart(r, p, n)
    \/ \E c \in InFlight : GotRoom(c)
    \/ \E c \in InFlight : CreateRouterDone(c)
    \/ \E c \in InFlight : EngineReject(c)
    \/ \E r \in RoomIds, p \in PeerIds : Leave(r, p)
    \/ shutdown

SpecRegistry == InitWith(Caps(MaxRouters, MaxPeerObjs, 0, 0, 0)) /\ [][NextRegistry]_vars

NextProduce ==
    \/ \E r \in RoomIds : GetRouterRtpCapabilitiesStart(r)
    \/ \E r \in RoomIds, p \in PeerIds, n \in DisplayNames : JoinStart(r, p, n)
    \/ \E c \in InFlight : GotRoom(c)
    \/ \E c \in InFlight : CreateRouterDone(c)
    \/ \E c \in InFlight : EngineReject(c)
    \/ \E r \in RoomIds, p \in PeerIds : Leave(r, p)
    \/ \E r \in RoomIds, p \in PeerIds, b \in BOOLEAN : CreateWebRtcTransportStart(r, p, b)
    \/ \E c \in InFlight : CreateTransportDone(c)
    \/ \E c \in InFlight : SetMaxIncomingBitrateDone(c)
    \/ \E r \in RoomIds, p \in PeerIds, t \in TransportIds, k \in Kinds : ProduceStart(r, p, t, k)
    \/ \E c \in InFlight : ProduceDone(c)
    \/ \E r \in RoomIds, p \in PeerIds, x \in ProducerIds : CloseProducer(r, p, x)
    \/ \E r \in RoomIds, p \in PeerIds : GetProducers(r, p)

SpecProduce ==
    InitWith(Caps(MediaRouters, MediaPeerObjs, MaxTransports, MaxProducers, 0)) /\ [][NextProduce]_vars

NextConsume ==
    \/ \E r \in RoomIds, p \in PeerIds, n \in DisplayNames : JoinStart(r, p, n)
    \/ \E c \in InFlight : GotRoom(c)
    \/ \E c \in InFlight : CreateRouterDone(c)
    \/ \E c \in InFlight : EngineReject(c)
    \/ \E r \in RoomIds, p \in PeerIds : Leave(r, p)
    \/ \E r \in RoomIds, p \in PeerIds, b \in BOOLEAN : CreateWebRtcTransportStart(r, p, b)
    \/ \E c \in InFlight : CreateTransportDone(c)
    \/ \E c \in InFlight : SetMaxIncomingBitrateDone(c)
    \/ \E r \in RoomIds, p \in PeerIds, t \in TransportIds, k \in Kinds : ProduceStart(r, p, t, k)
    \/ \E c \in InFlight : ProduceDone(c)
    \/ \E r \in RoomIds, p \in PeerIds, x \in ProducerIds, b \in BOOLEAN : ConsumeStart(r, p, x, b)
    \/ \E c \in InFlight : ConsumeDone(c)
    \/ \E r \in RoomIds, p \in PeerIds, x \in ProducerIds : CloseProducer(r, p, x)
    \/ \E k \in ConsumerIds : ProducerCloseNotification(k)

SpecConsume ==
    InitWith(Caps(MediaRouters, MediaPeerObjs, MaxTransports, MaxProducers, MaxConsumers)) /\ [][NextConsume]_vars

\* the handlers that create, connect and close transports and producers
NextTeardown ==
    \/ \E r \in RoomIds, p \in PeerIds, n \in DisplayNames : JoinStart(r, p, n)
    \/ \E c \in InFlight : GotRoom(c)
    \/ \E c \in InFlight : CreateRouterDone(c)
    \/ \E c \in InFlight : EngineReject(c)
    \/ \E r \in RoomIds, p \in PeerIds : Leave(r, p)
    \/ \E r \in RoomIds, p \in PeerIds, b \in BOOLEAN : CreateWebRtcTransportStart(r, p, b)
    \/ \E c \in InFlight : CreateTransportDone(c)
    \/ \E c \in InFlight : SetMaxIncomingBitrateDone(c)
    \/ \E r \in RoomIds, p \in PeerIds, t \in TransportIds : ConnectTransportStart(r, p, t)
    \/ \E c \in InFlight : ConnectTransportDone(c)
    \/ \E r \in RoomIds, p \in PeerIds, t \in TransportIds, k \in Kinds : ProduceStart(r, p, t, k)
    \/ \E c \in InFlight : ProduceDone(c)
    \/ \E r \in RoomIds, p \in PeerIds, x \in ProducerIds : CloseProducer(r, p, x)
    \/ \E t \in TransportIds : DtlsStateClosed(t)

SpecTeardown ==
    InitWith(Caps(MediaRouters, MediaPeerObjs, MaxTransports, MaxProducers, 0)) /\ [][NextTeardown]_vars

\* joins under either display name, next to the handlers that give a peer a
\* transport and producers
RejoinNames == {"Ann", "Bob"}

NextRejoin ==
    \/ \E r \in RoomIds, p \in PeerIds, n \in RejoinNames : JoinStart(r, p, n)
    \/ \E c \in InFlight : GotRoom(c)
    \/ \E c \in InFlight : CreateRouterDone(c)
    \/ \E r \in RoomIds, p \in PeerIds : Leave(r, p)
    \/ \E r \in RoomIds, p \in PeerIds, b \in BOOLEAN : CreateWebRtcTransportStart(r, p, b)
    \/ \E c \in InFlight : CreateTransportDone(c)
    \/ \E c \in InFlight : SetMaxIncomingBitrateDone(c)
    \/ \E r \in RoomIds, p \in PeerIds, t \in TransportIds, k \in Kinds : ProduceStart(r, p, t, k)
    \/ \E c \in InFlight : ProduceDone(c)

SpecRejoin ==
    InitWith(Caps(MediaRouters, MediaPeerObjs, MaxTransports, 1, 0)) /\ [][NextRejoin]_vars

\* the handlers that name a transport, producer or consumer; the transports
\* are send transports, the producers audio, the capabilities compatible
NextHandles ==
    \/ \E r \in RoomIds, p \in PeerIds, n \in DisplayNames : JoinStart(r, p, n)
    \/ \E c \in InFlight : GotRoom(c)
    \/ \E c \in InFlight : CreateRouterDone(c)
    \/ \E r \in RoomIds, p \in PeerIds : Leave(r, p)
    \/ \E r \in RoomIds, p \in PeerIds : CreateWebRtcTransportStart(r, p, FALSE)
    \/ \E c \in InFlight : CreateTransportDone(c)
    \/ \E c \in InFlight : SetMaxIncomingBitrateDone(c)
    \/ \E r \in RoomIds, p \in PeerIds, t \in TransportIds : ConnectTransportStart(r, p, t)
    \/ \E c \in InFlight : ConnectTransportDone(c)
    \/ \E r \in RoomIds, p \in PeerIds, t \in TransportIds : ProduceStart(r, p, t, "audio")
    \/ \E c \in InFlight : ProduceDone(c)
    \/ \E r \in RoomIds, p \in PeerIds, x \in ProducerIds : ConsumeStart(r, p, x, TRUE)
    \/ \E c \in InFlight : ConsumeDone(c)
    \/ \E r \in RoomIds, p \in PeerIds, k \in ConsumerIds : ResumeConsumerStart(r, p, k)
    \/ \E r \in RoomIds, p \in PeerIds, x \in ProducerIds : PauseProducerStart(r, p, x)
    \/ \E r \in RoomIds, p \in PeerIds, x \in ProducerIds : ResumeProducerStart(r, p, x)
    \/ \E c \in InFlight : PauseResumeDone(c)
    \/ \E r \in RoomIds, p \in PeerIds, x \in ProducerIds : CloseProducer(r, p, x)

SpecHandles ==
    InitWith([Caps(MaxRouters, MediaPeerObjs, MaxTransports, 1, MaxConsumers) EXCEPT !.inFlight = 1])
        /\ [][NextHandles]_vars

\* every handler that can answer with an error, one handler suspended at a
\* time; the transports are send transports and the producers audio
NextErrors ==
    \/ \E r \in RoomIds : GetRouterRtpCapabilitiesStart(r)
    \/ \E r \in RoomIds, p \in PeerIds, n \in DisplayNames : JoinStart(r, p, n)
    \/ \E c \in InFlight : GotRoom(c)
    \/ \E c \in InFlight : CreateRouterDone(c)
    \/ \E c \in InFlight : EngineReject(c)
    \/ \E r \in RoomIds, p \in PeerIds : Leave(r, p)
    \/ \E r \in RoomIds, p \in PeerIds : CreateWebRtcTransportStart(r, p, FALSE)
    \/ \E c \in InFlight : CreateTransportDone(c)
    \/ \E c \in InFlight : SetMaxIncomingBitrateDone(c)
    \/ \E r \in RoomIds, p \in PeerIds, t \in TransportIds : ConnectTransportStart(r, p, t)
    \/ \E c \in InFlight : ConnectTransportDone(c)
    \/ \E r \in RoomIds, p \in PeerIds, t \in TransportIds : ProduceStart(r, p, t, "audio")
    \/ \E c \in InFlight : ProduceDone(c)
    \/ \E r \in RoomIds, p \in PeerIds, x \in ProducerIds, b \in BOOLEAN : ConsumeStart(r, p, x, b)
    \/ \E c \in InFlight : ConsumeDone(c)
    \/ \E r \in RoomIds, p \in PeerIds, k \in ConsumerIds : ResumeConsumerStart(r, p, k)
    \/ \E r \in RoomIds, p \in PeerIds, x \in ProducerIds : PauseProducerStart(r, p, x)
    \/ \E r \in RoomIds, p \in PeerIds, x \in ProducerIds : ResumeProducerStart(r, p, x)
    \/ \E c \in InFlight : PauseResumeDone(c)
    \/ \E r \in RoomIds, p \in PeerIds, x \in ProducerIds : CloseProducer(r, p, x)
    \/ \E r \in RoomIds, p \in PeerIds : UnknownMethod(r, p)

SpecErrors ==
    InitWith([Caps(MediaRouters, MediaPeerObjs, MaxTransports, 1, MaxConsumers) EXCEPT !.inFlight = 1])
        /\ [][NextErrors]_vars

\* room creation on several workers, one request at a time
NextWorkers ==
    \/ \E r \in RoomIds : GetRouterRtpCapabilitiesStart(r)
    \/ \E r \in RoomIds, p \in PeerIds, n \in DisplayNames : JoinStart(r, p, n)
    \/ \E c \in InFlight : GotRoom(c)
    \/ \E c \in InFlight : CreateRouterDone(c)
    \/ \E c \in InFlight : EngineReject(c)
    \/ \E r \in RoomIds, p \in PeerIds : Leave(r, p)

SpecWorkers ==
    InitWith([Caps(MaxRouters + 1, MaxPeerObjs, 0, 0, 0) EXCEPT !.inFlight = 1, !.workers = MaxWorkers])
        /\ [][NextWorkers]_vars

\* leave next to the worker's answers to the close requests
NextLeave ==
    \/ \E r \in RoomIds, p \in PeerIds, n \in DisplayNames : JoinStart(r, p, n)
    \/ \E c \in InFlight : GotRoom(c)
    \/ \E c \in InFlight : CreateRouterDone(c)
    \/ \E r \in RoomIds, p \in PeerIds : Leave(r, p)
    \/ \E r \in RoomIds, p \in PeerIds : CreateWebRtcTransportStart(r, p, FALSE)
    \/ \E c \in InFlight : CreateTransportDone(c)
    \/ \E c \in InFlight : SetMaxIncomingBitrateDone(c)
    \/ \E r \in RoomIds, p \in PeerIds, t \in TransportIds : ConnectTransportStart(r, p, t)
    \/ \E c \in InFlight : ConnectTransportDone(c)
    \/ \E t \in TransportIds : DtlsStateClosed(t)
    \/ \E t \in TransportIds, done \in BOOLEAN : CloseRequestSettles(t, done)

SpecLeave ==
    InitWith([Caps(MaxRouters, MediaPeerObjs, MaxTransports + 1, 0, 0) EXCEPT !.inFlight = 1])
        /\ [][NextLeave]_vars

\* the handlers that create and resume consumers
NextResume ==
    \/ \E r \in RoomIds, p \in PeerIds, n \in DisplayNames : JoinStart(r, p, n)
    \/ \E c \in InFlight : GotRoom(c)
    \/ \E c \in InFlight : CreateRouterDone(c)
    \/ \E r \in RoomIds, p \in PeerIds : Leave(r, p)
    \/ \E r \in RoomIds, p \in PeerIds, b \in BOOLEAN : CreateWebRtcTransportStart(r, p, b)
    \/ \E c \in InFlight : CreateTransportDone(c)
    \/ \E c \in InFlight : SetMaxIncomingBitrateDone(c)
    \/ \E r \in RoomIds, p \in PeerIds, t \in TransportIds, k \in Kinds : ProduceStart(r, p, t, k)
    \/ \E c \in InFlight : ProduceDone(c)
    \/ \E r \in RoomIds, p \in PeerIds, x \in ProducerIds, b \in BOOLEAN : ConsumeStart(r, p, x, b)
    \/ \E c \in InFlight : ConsumeDone(c)
    \/ \E r \in RoomIds, p \in PeerIds, k \in ConsumerIds : ResumeConsumerStart(r, p, k)
    \/ \E c \in InFlight : PauseResumeDone(c)

SpecResume ==
    InitWith(Caps(MediaRouters, MediaPeerObjs, MaxTransports, 1, MaxConsumers)) /\ [][NextResume]_vars

\* repeated createWebRtcTransport and consume requests: one transport and one
\* consumer more than in the other media runs
NextRepeat ==
    \/ \E r \in RoomIds, p \in PeerIds, n \in DisplayNames : JoinStart(r, p, n)
    \/ \E c \in InFlight : GotRoom(c)
    \/ \E c \in InFlight : CreateRouterDone(c)
    \/ \E r \in RoomIds, p \in PeerIds, b \in BOOLEAN : CreateWebRtcTransportStart(r, p, b)
    \/ \E c \in InFlight : CreateTransportDone(c)
    \/ \E c \in InFlight : SetMaxIncomingBitrateDone(c)
    \/ \E r \in RoomIds, p \in PeerIds, t \in TransportIds, k \in Kinds : ProduceStart(r, p, t, k)
    \/ \E c \in InFlight : ProduceDone(c)
    \/ \E r \in RoomIds, p \in PeerIds, x \in ProducerIds, b \in BOOLEAN : ConsumeStart(r, p, x, b)
    \/ \E c \in InFlight : ConsumeDone(c)

SpecRepeat ==
    InitWith(Caps(MediaRouters, MediaPeerObjs, MaxTransports + 1, 1, MaxConsumers + 1))
        /\ [][NextRepeat]_vars

\* a join and a leave that run to completion before the next request starts
SeqJoin(r, p, n) ==
    /\ running
    /\ calls = EmptyBag
    /\ net[<<r, p>>] < MaxNet
    /\ LET creating == rooms[r] = 0
           o == IF creating THEN Len(roomObjs) + 1 ELSE rooms[r]
           ro == IF creating THEN Append(roomObjs, NewRoom(r)) ELSE roomObjs
       IN /\ creating => Len(roomObjs) < cap.routers
          /\ ~hasPeer(ro, o, p) => Len(peerObjs) < cap.peerObjs
          /\ rooms' = [rooms EXCEPT ![r] = o]
          /\ nextWorkerIdx' = IF creating THEN AdvanceWorker ELSE nextWorkerIdx
          /\ allocs' = IF creating THEN Picked(getNextWorker) ELSE allocs
          /\ HandlerTail([Call("join", r, p, "") EXCEPT !.displayName = n], ro, o)
    /\ net' = [net EXCEPT ![<<r, p>>] = @ + 1]
    /\ UNCHANGED <<engine, calls, running, cap, outer>>

SeqLeave(r, p) ==
    /\ running
    /\ calls = EmptyBag
    /\ net[<<r, p>>] > -MaxNet
    /\ LeaveEffect(r, p)
    /\ joined' = joined \ {<<r, p>>}
    /\ net' = [net EXCEPT ![<<r, p>>] = @ - 1]
    /\ UNCHANGED <<nextWorkerIdx, calls, running, fixed>>

NextSeq ==
    \/ \E r \in RoomIds, p \in PeerIds, n \in DisplayNames : SeqJoin(r, p, n)
    \/ \E r \in RoomIds, p \in PeerIds : SeqLeave(r, p)

SpecSeq == InitWith(Caps(MaxRouters, MaxPeerObjs, 0, 0, 0)) /\ [][NextSeq]_vars

TypeOK ==
    /\ rooms \in [RoomIds -> 0..cap.routers]
    /\ nextWorkerIdx \in 0..(cap.workers - 1)
    /\ BagCardinality(calls) <= cap.inFlight
    /\ Len(roomObjs) <= cap.routers
    /\ Len(peerObjs) <= cap.peerObjs
    /\ Len(transports) <= cap.transports
    /\ Len(producers) <= cap.producers
    /\ Len(consumers) <= cap.consumers

----------------------------------------------------------------------------
(* server.js: the RPC socket. handleRpcRequest is taken here as a promise  *)
(* that resolves with a result or rejects with an Error.                   *)

\* the error codes of the two error responses
ParseError == -32700
HandlerError == -32000

\* the ids callers put on their requests
RequestIds == {"a", "b"}

\* the complete lines a chunk can hold: blank or white space, text that is
\* not JSON, the JSON text null, other JSON without a method (a number, {}),
\* and a request object with an id or without one ("absent": undefined)
LineSet ==
    {[kind |-> k, id |-> "absent"] : k \in {"blank", "garbage", "null", "value"}}
        \cup {[kind |-> "request", id |-> i] : i \in RequestIds \cup {"absent"}}

\* sendResponse: the response object as JSON.stringify writes it; an id that
\* is undefined is left out, error wins over result
sendResponse(so, n, id, error, hasResult) ==
    [so EXCEPT !.written = Append(@, [line |-> n, id |-> id, error |-> error,
                                      result |-> error = 0 /\ hasResult])]

\* processMessage for one non-blank line, up to its await: a parse error is
\* answered at once; for the JSON text null the read of request.method
\* throws inside the try and again inside the catch, so the promise of
\* processMessage rejects and nothing is written; every other request waits
\* for its handler
processMessage(so, l) ==
    LET n   == Len(so.lines) + 1
        so1 == [so EXCEPT !.lines = Append(@, l)]
    IN CASE l.kind = "garbage" -> sendResponse(so1, n, "null", ParseError, FALSE)
         [] l.kind = "null"    -> [so1 EXCEPT !.unhandled = @ \cup {n}]
         [] OTHER              -> [so1 EXCEPT !.awaiting = @ \cup {n}]

\* the 'data' handler's loop over the complete lines of the buffer
RECURSIVE processLines(_, _)
processLines(so, ls) ==
    IF ls = <<>> THEN so
    ELSE processLines(IF Head(ls).kind = "blank" THEN so ELSE processMessage(so, Head(ls)),
                      Tail(ls))

Chunks == UNION {[1..n -> LineSet] : n \in 0..MaxChunk}

NonBlank(ls) == Cardinality({i \in DOMAIN ls : ls[i].kind # "blank"})

server == <<rooms, nextWorkerIdx, roomObjs, peerObjs, transports, producers, consumers,
            calls, reply, cap, allocs, joined, net>>

\* a chunk arrives: together with the buffer it holds the complete lines ls
\* and, if rest, the beginning of a further line. fatal: the runtime ends the
\* process on an unhandled rejection (it may also only warn)
Data(ls, rest, fatal) ==
    /\ running
    /\ ls # <<>> \/ rest
    /\ Len(sock.lines) + NonBlank(ls) <= MaxLines
    /\ sock' = [processLines(sock, ls) EXCEPT !.buffered = IF ls = <<>> THEN TRUE ELSE rest]
    /\ running' = ~(fatal /\ sock'.unhandled # sock.unhandled)
    /\ UNCHANGED <<server, client, gate, aside>>

\* the handler of request n settles: its result or its error is written
\* under request.id; without a method the handler can only reject
HandlerSettles(n, ok) ==
    /\ running
    /\ n \in sock.awaiting
    /\ ok => sock.lines[n].kind = "request"
    /\ sock' = sendResponse([sock EXCEPT !.awaiting = @ \ {n}], n, sock.lines[n].id,
                            IF ok THEN 0 ELSE HandlerError, ok)
    /\ UNCHANGED <<server, running, client, gate, aside>>

NextSocket ==
    \/ \E ls \in Chunks, rest \in BOOLEAN, fatal \in BOOLEAN : Data(ls, rest, fatal)
    \/ \E n \in 1..MaxLines, ok \in BOOLEAN : HandlerSettles(n, ok)

SpecSocket == InitWith(Caps(0, 0, 0, 0, 0)) /\ [][NextSocket]_vars

----------------------------------------------------------------------------
(* The browser: app.js and ourtc.js. The gateway on the other end of the   *)
(* Socket.IO connection answers a 'consume' with 'consumed' or with        *)
(* 'error', the two events the client listens for.                         *)

\* the producers of the remote peers, as the gateway announces them
RemoteProducers == {"x1", "x2"}

OwnerOf(x) == IF x = "x1" THEN "p1" ELSE "p2"

\* data.peers[..].producers of 'roomJoined' and data.producers of 'producers'
ProducerLists == {<<>>, <<"x1">>, <<"x2">>, <<"x1", "x2">>}

MapSet(m, k, v) == [i \in DOMAIN m \cup {k} |-> IF i = k THEN v ELSE m[i]]

\* RibbonRTC.consume(producerId, peerId): the request is emitted, a once
\* listener for 'consumed' is registered, the promise is pending
consume(cl, x, origin) ==
    LET k == Len(cl.calls) + 1
    IN [cl EXCEPT !.calls = Append(@, [producerId |-> x, peerId |-> OwnerOf(x),
                                       origin |-> origin, status |-> "pending",
                                       answer |-> "none", from |-> 0, consumerId |-> 0]),
                  !.wire = Append(@, [type |-> "consume", call |-> k]),
                  !.listeners = Append(@, k)]

\* the 'roomJoined' handler after its try block: chat and the other panels
\* are initialised and getProducers is emitted
AfterMedia(cl) ==
    [cl EXCEPT !.handler = "done", !.chat = TRUE,
               !.wire = Append(@, [type |-> "getProducers", call |-> 0])]

\* the 'roomJoined' handler's loop: the next consume is awaited, or the loop ends
JoinNext(cl) ==
    IF cl.todo = <<>> THEN AfterMedia(cl)
    ELSE consume([cl EXCEPT !.handler = "consume", !.todo = Tail(@)], Head(cl.todo), "roomJoined")

\* the 'producers' handler's loop
ProducersNext(cl) ==
    IF cl.plist = <<>> THEN cl
    ELSE consume([cl EXCEPT !.plist = Tail(@)], Head(cl.plist), "producers")

\* the once listener of call k runs on the event ev: the consumer is built
\* from ev, stored under its id with the peer id of the listener's closure,
\* the promise resolves and the awaiting handler goes on
Resolve(cl, k, ev) ==
    LET cl1 == [cl EXCEPT !.consumersMap = MapSet(@, ev.consumerId,
                                                  [producerId |-> ev.producerId,
                                                   peerId |-> cl.calls[k].peerId]),
                          !.calls[k].status = "resolved",
                          !.calls[k].from = ev.call,
                          !.calls[k].consumerId = ev.consumerId]
    IN CASE cl.calls[k].origin = "roomJoined" -> JoinNext(cl1)
         [] cl.calls[k].origin = "producers"  -> ProducersNext(cl1)
         [] OTHER                             -> cl1

\* the emitter calls every listener registered when the event arrived
RECURSIVE Dispatch(_, _, _)
Dispatch(cl, ks, ev) ==
    IF ks = <<>> THEN cl ELSE Dispatch(Resolve(cl, Head(ks), ev), Tail(ks), ev)

browser == <<server, running, sock, gate, aside>>

Within(cl) == Len(cl.calls) <= MaxClientCalls

\* 'roomJoined' arrives: the handler starts and awaits init, local media and
\* the two produce calls
RoomJoined(list) ==
    /\ client.handler = "none"
    /\ client' = [client EXCEPT !.handler = "media", !.todo = list]
    /\ UNCHANGED browser

\* the media setup settles: the loop over the announced producers starts,
\* or an exception takes the handler through its catch block
MediaSetupDone(ok) ==
    /\ client.handler = "media"
    /\ client' = IF ok THEN JoinNext(client) ELSE AfterMedia(client)
    /\ UNCHANGED browser

\* 'newProducer' arrives: its handler calls consume at once
NewProducer(x) ==
    /\ client.handler \in {"consume", "done"}
    /\ Len(client.calls) < MaxClientCalls
    /\ client' = consume(client, x, "newProducer")
    /\ UNCHANGED browser

\* the gateway answers the i-th request on the wire, a 'consume' with
\* 'consumed' and a new consumer id, or with 'error'
GatewayAnswersConsume(i, ok) ==
    /\ i \in DOMAIN client.wire
    /\ client.wire[i].type = "consume"
    /\ LET k == client.wire[i].call
           made == Cardinality({j \in DOMAIN client.calls : client.calls[j].answer = "consumed"})
                      + Cardinality({j \in DOMAIN client.inbox : client.inbox[j].type = "consumed"})
           ev == IF ok THEN [type |-> "consumed", call |-> k, consumerId |-> made + 1,
                             producerId |-> client.calls[k].producerId, list |-> <<>>]
                 ELSE [type |-> "error", call |-> k, consumerId |-> 0,
                       producerId |-> "", list |-> <<>>]
       IN client' = [client EXCEPT
                        !.wire = SubSeq(@, 1, i - 1) \o SubSeq(@, i + 1, Len(@)),
                        !.inbox = Append(@, ev)]
    /\ UNCHANGED browser

\* the gateway answers getProducers with the producers of the other peers
GatewayAnswersGetProducers(i, list) ==
    /\ i \in DOMAIN client.wire
    /\ client.wire[i].type = "getProducers"
    /\ client' = [client EXCEPT
                     !.wire = SubSeq(@, 1, i - 1) \o SubSeq(@, i + 1, Len(@)),
                     !.inbox = Append(@, [type |-> "producers", call |-> 0, consumerId |-> 0,
                                          producerId |-> "", list |-> list])]
    /\ UNCHANGED browser

\* the next event reaches the page. 'consumed' runs every once listener on
\* 'consumed'; 'error' only adds a system message; 'producers' starts the
\* loop of its handler
Deliver ==
    /\ client.inbox # <<>>
    /\ LET ev  == Head(client.inbox)
           cl0 == [client EXCEPT !.inbox = Tail(@)]
           cl1 == CASE ev.type = "consumed" ->
                         Dispatch([cl0 EXCEPT !.listeners = <<>>,
                                              !.calls[ev.call].answer = "consumed"],
                                  client.listeners, ev)
                    [] ev.type = "error" ->
                         [cl0 EXCEPT !.notices = @ + 1, !.calls[ev.call].answer = "error"]
                    [] OTHER ->
                         ProducersNext([cl0 EXCEPT !.plist = ev.list])
       IN /\ Within(cl1)
          /\ client' = cl1
    /\ UNCHANGED browser

NextBrowser ==
    \/ \E list \in ProducerLists : RoomJoined(list)
    \/ \E ok \in BOOLEAN : MediaSetupDone(ok)
    \/ \E x \in RemoteProducers : NewProducer(x)
    \/ \E i \in 1..(MaxClientCalls + 1), ok \in BOOLEAN : GatewayAnswersConsume(i, ok)
    \/ \E i \in 1..(MaxClientCalls + 1), list \in ProducerLists : GatewayAnswersGetProducers(i, list)
    \/ Deliver

SpecBrowser == InitWith(Caps(0, 0, 0, 0, 0)) /\ [][NextBrowser]_vars

----------------------------------------------------------------------------
(* The gateway's Room Session State Machine: Join, ApproveJoin, DenyJoin   *)
(* and Leave with the access mode and the host of a room.                  *)

AccessModes == {"open", "host-approval"}

Present(g) == {p \in GatePeers : g.state[p] \in {"AwaitingApproval", "Active"}}

gateway == <<server, running, sock, client, aside>>

\* a join request arrives: the peer is Joining until the room lock is taken
\* for it; early records the requests that arrived while no host was present
GateJoinRequest(r, p) ==
    /\ gate[r].state[p] \in {"none", "Left"}
    /\ gate' = [gate EXCEPT ![r].state[p] = "Joining",
                            ![r].early = IF gate[r].host = "" THEN @ \cup {p} ELSE @ \ {p}]
    /\ UNCHANGED gateway

\* whether a joining peer finds the room without a host, as seen at the
\* time its request arrived
hostAbsentAtRequest(g, p) == p \in g.early

\* whether a joining peer finds the room without a host, under the room lock
hostAbsent(g, p) == g.host = ""

\* Join under the room creation lock: the room is created with the mode
\* asked for if it does not exist; in a host-approval room without a host the
\* peer becomes host and is Active, with a host it is AwaitingApproval; in
\* an open room it is Active
GateJoin(r, p, mode) ==
    /\ gate[r].state[p] = "Joining"
    /\ LET g == IF gate[r].exists THEN gate[r]
                ELSE [gate[r] EXCEPT !.exists = TRUE, !.mode = mode, !.host = "",
                                     !.direct = {}, !.contenders = {}]
       IN gate' = [gate EXCEPT ![r] =
                     IF g.mode = "host-approval" /\ hostAbsent(g, p)
                     THEN [g EXCEPT !.host = p, !.state[p] = "Active",
                                    !.direct = @ \cup {p}, !.early = @ \ {p},
                                    !.contenders = {q \in GatePeers \ {p} : g.state[q] = "Joining"}]
                     ELSE IF g.mode = "host-approval"
                     THEN [g EXCEPT !.state[p] = "AwaitingApproval", !.early = @ \ {p}]
                     ELSE [g EXCEPT !.state[p] = "Active", !.early = @ \ {p}]]
    /\ UNCHANGED gateway

\* ApproveJoin and DenyJoin, by the host only
ApproveJoin(r, p) ==
    /\ gate[r].host # ""
    /\ gate[r].state[p] = "AwaitingApproval"
    /\ gate' = [gate EXCEPT ![r].state[p] = "Active"]
    /\ UNCHANGED gateway

DenyJoin(r, p) ==
    /\ gate[r].host # ""
    /\ gate[r].state[p] = "AwaitingApproval"
    /\ gate' = [gate EXCEPT ![r].state[p] = "none"]
    /\ UNCHANGED gateway

\* Leave: the peer is Left and out of the room; a host that leaves leaves the
\* room without a host; a room with zero peers is destroyed
GateLeave(r, p) ==
    /\ gate[r].state[p] \in {"AwaitingApproval", "Active"}
    /\ LET g == [gate[r] EXCEPT !.state[p] = "Left",
                                !.host = IF @ = p THEN "" ELSE @,
                                !.direct = @ \ {p},
                                !.contenders = IF gate[r].host = p THEN {} ELSE @]
       IN gate' = [gate EXCEPT ![r] =
                     IF Present(g) = {}
                     THEN [g EXCEPT !.exists = FALSE, !.mode = "open", !.host = "",
                                    !.direct = {}, !.contenders = {}]
                     ELSE g]
    /\ UNCHANGED gateway

NextGate ==
    \/ \E r \in RoomIds, p \in GatePeers : GateJoinRequest(r, p)
    \/ \E r \in RoomIds, p \in GatePeers, m \in AccessModes : GateJoin(r, p, m)
    \/ \E r \in RoomIds, p \in GatePeers : ApproveJoin(r, p)
    \/ \E r \in RoomIds, p \in GatePeers : DenyJoin(r, p)
    \/ \E r \in RoomIds, p \in GatePeers : GateLeave(r, p)

SpecGate == InitWith(Caps(0, 0, 0, 0, 0)) /\ [][NextGate]_vars

----------------------------------------------------------------------------
(* The claims.                                                             *)

\* the peer count of the Room registered under r (0 when there is none)
Count(r) == IF rooms[r] = 0 THEN 0 ELSE getPeerCount(roomObjs, rooms[r])

\* the producers the Room registered under r holds for peer id q
RegisteredTo(r, q) ==
    IF rooms[r] # 0 /\ hasPeer(roomObjs, rooms[r], q)
    THEN peerObjs[roomObjs[rooms[r]].peers[q]].producers
    ELSE {}

\* C1 as stated: after any sequence of join and leave RPCs on a room id, each
\* completed before the next starts, the peer count equals the number of peer
\* ids whose joins outnumber their leaves, and the count is zero exactly when
\* the room is not in the registry.
C1_CountIsNetPositiveJoins ==
    \A r \in RoomIds :
        /\ Count(r) = Cardinality({p \in PeerIds : net[<<r, p>>] > 0})
        /\ (Count(r) = 0) <=> (rooms[r] = 0)

\* C1 amended: after any such sequence the peer count equals the number of peer
\* ids whose latest request is a join (a join of a present peer and a leave of
\* an absent one change nothing), and the count is zero exactly when the room
\* is not in the registry.
C1_CountIsLatestJoins ==
    \A r \in RoomIds :
        /\ Count(r) = Cardinality({p \in PeerIds : <<r, p>> \in joined})
        /\ (Count(r) = 0) <=> (rooms[r] = 0)

\* a room destroyed and created again, holding one peer, while another peer id
\* has more joins than leaves and is not in the room
C1_Witness ==
    \E r \in RoomIds, p \in PeerIds :
        /\ Len(roomObjs) = 2
        /\ Count(r) = 1
        /\ net[<<r, p>>] > 0
        /\ <<r, p>> \notin joined

\* C2: a leave answered right after the answer to a leave of the same room and
\* peer id succeeds with an empty closed-producer list.
C2_SecondLeaveEmpty ==
    (reply.method = "leave" /\ reply.nth = 2) => (reply.ok /\ reply.closedProducers = {})

\* the second leave of a peer that had a producer, the room living on
C2_Witness ==
    /\ reply.method = "leave"
    /\ reply.nth = 2
    /\ rooms[reply.roomId] # 0
    /\ \E x \in DOMAIN producers : producers[x].peerId = reply.peerId

\* C3: no peer record holds two producers of the same kind.
C3_OneProducerPerKind ==
    \A k \in DOMAIN peerObjs : \A x, y \in peerObjs[k].producers :
        producers[x].kind = producers[y].kind => x = y

\* C4: a getProducers for peer p answers with exactly the producers the room
\* holds for the other peers, each carrying the peer id of its owner (the
\* producer's appData.peerId), and with none at all for an unknown room.
C4_GetProducersOthersOnly ==
    [][\A r \in RoomIds, p \in PeerIds :
        GetProducers(r, p) =>
            /\ \A e \in reply'.producers :
                    /\ e.peerId # p
                    /\ e.producerId \in RegisteredTo(r, e.peerId)
                    /\ producers[e.producerId].peerId = e.peerId
            /\ \A q \in PeerIds \ {p} : \A x \in RegisteredTo(r, q) :
                    \E e \in reply'.producers : e.producerId = x /\ e.peerId = q]_vars

\* a getProducers answer that lists a producer
C4_Witness ==
    /\ reply.method = "getProducers"
    /\ reply.producers # {}

\* C5: a consume, by a peer of the room, of a producer that is closed is
\* answered with the error "Producer not found" and suspends no handler.
C5_ClosedProducerNotFound ==
    [][\A r \in RoomIds, p \in PeerIds, x \in ProducerIds, b \in BOOLEAN :
        (/\ ConsumeStart(r, p, x, b)
         /\ Lookup("consume", r, p).ok
         /\ x \in DOMAIN producers
         /\ producers[x].closed)
        => (/\ ~reply'.ok
            /\ reply'.error = "Producer not found"
            /\ calls' = calls)]_vars

\* C6: a room id never has two Room objects with an open router, and a join or
\* getRouterRtpCapabilities is answered from the Room registered under its id.
C6_OneRoomPerId ==
    /\ \A o1, o2 \in DOMAIN roomObjs :
            (/\ roomObjs[o1].roomId = roomObjs[o2].roomId
             /\ roomObjs[o1].routerCloses = 0
             /\ roomObjs[o2].routerCloses = 0) => o1 = o2
    /\ (reply.method \in {"join", "getRouterRtpCapabilities"} /\ reply.ok)
            => reply.room = rooms[reply.roomId]

\* C7: no router is closed twice, and the router of a Room that the registry
\* does not hold has been closed.
C7_RouterClosedExactlyOnce ==
    \A o \in DOMAIN roomObjs :
        /\ roomObjs[o].routerCloses <= 1
        /\ o \notin Registered => roomObjs[o].routerCloses = 1

\* C8: createWebRtcTransport puts a transport into a peer record, and answers
\* with it, only if that record is still the room's record of the peer id.
C8_NoTransportForLeftPeer ==
    [][\A c \in InFlight :
        SetMaxIncomingBitrateDone(c) => roomObjs[c.room].peers[c.peerId] = c.peer]_vars

\* C9: produce answers with a producer id only if the peer record the producer
\* is put into is still the room's record of the peer id.
C9_NoProducerForLeftPeer ==
    [][\A c \in InFlight :
        ProduceDone(c) => roomObjs[c.room].peers[c.peerId] = c.peer]_vars

\* C10: the peer list a join is answered with holds every peer whose join had
\* been answered when this join started and who has not left since.
C10_JoinedPeersListed ==
    [][\A c \in InFlight :
        ((GotRoom(c) \/ CreateRouterDone(c)) /\ c.method = "join")
            => c.after \subseteq {e.peerId : e \in reply'.peers}]_vars

\* C11: a leave of (r, p) is answered without error; after it the Room that
\* was registered under r has no entry for p, and every transport that was in
\* p's record is closed together with the producers and consumers on it; a
\* leave answered right after the answer to the same leave changes no room, no
\* peer record and no engine object.
C11_LeaveTearsDown ==
    [][\A r \in RoomIds, p \in PeerIds :
        Leave(r, p) =>
            /\ reply'.ok
            /\ rooms[r] # 0 => roomObjs'[rooms[r]].peers[p] = 0
            /\ (rooms[r] # 0 /\ hasPeer(roomObjs, rooms[r], p)) =>
                    \A t \in Range(peerObjs[PeerOf(r, p)].transports) :
                        /\ transports'[t].closed
                        /\ \A x \in DOMAIN producers :
                                producers[x].transport = t => producers'[x].closed
                        /\ \A k \in DOMAIN consumers :
                                consumers[k].transport = t => consumers'[k].closed
            /\ Nth(r, p) = 2 =>
                    /\ rooms' = rooms
                    /\ roomObjs' = roomObjs
                    /\ peerObjs' = peerObjs
                    /\ engine' = engine]_vars

\* the second leave of a peer whose transport carried a producer, in a room
\* that another peer keeps alive
C11_Witness ==
    /\ reply.method = "leave"
    /\ reply.nth = 2
    /\ rooms[reply.roomId] # 0
    /\ \E t \in DOMAIN transports :
            /\ transports[t].peerId = reply.peerId
            /\ transports[t].closed
            /\ \E x \in DOMAIN producers : producers[x].transport = t /\ producers[x].closed

\* C12: the closedProducers a leave of (r, p) is answered with are exactly the
\* producers registered to p in the room before the call; none of them is
\* already closed (by closeProducer or by the closing of its transport), and
\* every producer of p that getProducers would list to another peer is among
\* them.
C12_ClosedProducersAreRegistered ==
    [][\A r \in RoomIds, p \in PeerIds :
        Leave(r, p) =>
            /\ reply'.closedProducers = RegisteredTo(r, p)
            /\ \A x \in reply'.closedProducers : ~producers[x].closed
            /\ rooms[r] # 0 =>
                    \A q \in PeerIds \ {p} :
                        \A e \in getProducersForPeer(roomObjs, peerObjs, producers, rooms[r], q) :
                            e.peerId = p => e.producerId \in reply'.closedProducers]_vars

\* a leave answered with one producer of the peer and without another, which
\* had been closed before
C12_Witness ==
    /\ reply.method = "leave"
    /\ \E x \in reply.closedProducers, y \in DOMAIN producers :
            /\ y \notin reply.closedProducers
            /\ producers[y].peerId = reply.peerId
            /\ producers[y].peer = producers[x].peer

\* C13: a leave for a room id without a Room, or for a peer id that the Room
\* does not hold, is answered with an empty list and changes neither the
\* registry nor any Room, peer record or engine object.
C13_LeaveOfAbsentPeerIsNoOp ==
    [][\A r \in RoomIds, p \in PeerIds :
        (Leave(r, p) /\ (rooms[r] = 0 \/ ~hasPeer(roomObjs, rooms[r], p))) =>
            /\ reply'.ok
            /\ reply'.closedProducers = {}
            /\ rooms' = rooms
            /\ roomObjs' = roomObjs
            /\ peerObjs' = peerObjs
            /\ engine' = engine]_vars

\* C14: a join that finds its peer id in the Room changes no Room and no peer
\* record (display name, transports, producers and consumers stay, and so does
\* the peer count) and is answered with the Room's peer list as it stands.
C14_DuplicateJoinIsNoOp ==
    [][\A c \in InFlight :
        (GotRoom(c) /\ c.method = "join" /\ hasPeer(roomObjs, c.room, c.peerId)) =>
            /\ roomObjs' = roomObjs
            /\ peerObjs' = peerObjs
            /\ engine' = engine
            /\ rooms' = rooms
            /\ reply'.ok
            /\ reply'.peers = getPeerList(roomObjs, peerObjs, c.room)]_vars

\* a second join, under another display name, of a peer that holds a transport
\* and a producer, answered with the first name
C14_Witness ==
    /\ reply.method = "join"
    /\ Len(peerObjs) = 1
    /\ peerObjs[1].displayName = "Ann"
    /\ peerObjs[1].transports # <<>>
    /\ peerObjs[1].producers # {}
    /\ \E e \in reply.peers : e.peerId = reply.peerId /\ e.producers # {} /\ e.displayName = "Ann"

\* C15: a consumer is paused when it is created; it stops being paused only
\* when a resumeConsumer naming it, issued under the peer id of the record
\* that holds it, completes; a resumeConsumer naming it under any other peer
\* id is refused and suspends nothing.
C15_ConsumerPausedUntilOwnerResumes ==
    [][/\ \A k \in DOMAIN consumers' \ DOMAIN consumers : consumers'[k].paused
       /\ \A k \in DOMAIN consumers :
            (consumers[k].paused /\ ~consumers'[k].paused) =>
                \E c \in InFlight :
                    /\ c.method = "resumeConsumer"
                    /\ c.target = k
                    /\ c.peer = consumers[k].peer
                    /\ c.peerId = transports[consumers[k].transport].peerId
                    /\ PauseResumeDone(c)
       /\ \A r \in RoomIds, p \in PeerIds, k \in ConsumerIds :
            (/\ ResumeConsumerStart(r, p, k)
             /\ k \in DOMAIN consumers
             /\ ~(Lookup("resumeConsumer", r, p).ok /\ PeerOf(r, p) = consumers[k].peer))
            => (~reply'.ok /\ calls' = calls)]_vars

\* a consumer resumed by its owner while another peer is in the room
C15_Witness ==
    /\ reply.method = "resumeConsumer"
    /\ reply.ok
    /\ Count(reply.roomId) = 2
    /\ \E k \in DOMAIN consumers : ~consumers[k].paused /\ ~consumers[k].closed

\* C16: every consumer in the consumers map of a peer of a registered Room
\* consumes a producer that is in the producers map of some peer of that Room.
C16_ConsumersOfRegisteredProducers ==
    \A r \in RoomIds, p \in PeerIds :
        (rooms[r] # 0 /\ hasPeer(roomObjs, rooms[r], p)) =>
            \A k \in peerObjs[PeerOf(r, p)].consumers :
                \E q \in PeerIds : consumers[k].producerId \in RegisteredTo(r, q)

\* C17: no peer record holds two consumers of the same producer of another
\* peer.
C17_OneConsumerPerProducer ==
    \A k \in DOMAIN peerObjs : \A c1, c2 \in peerObjs[k].consumers :
        (/\ consumers[c1].producerId = consumers[c2].producerId
         /\ producers[consumers[c1].producerId].peer # k) => c1 = c2

\* C18: a produce is answered with a producer id only on a transport on which
\* a connectTransport has completed.
C18_ProduceOnlyWhenConnected ==
    [][\A c \in InFlight :
        ProduceDone(c) => transports[c.transport].connected]_vars

\* the open transports of peer record k that are, or are not, marked consuming
OwnedTransports(k, consuming) ==
    {t \in Range(peerObjs[k].transports) :
        ~transports[t].closed /\ transports[t].consuming = consuming}

\* C19: every peer record holds at most one open transport that is not marked
\* consuming (send) and at most one that is (receive).
C19_OneTransportPerDirection ==
    \A k \in DOMAIN peerObjs : \A b \in BOOLEAN :
        Cardinality(OwnedTransports(k, b)) <= 1

\* the Room and peer id a transport was created for (its router and its
\* appData.peerId), and the same for the producers and consumers on it
TransportOwner(t) == <<transports[t].router, transports[t].peerId>>

ProducerOwner(x) == TransportOwner(producers[x].transport)

ConsumerOwner(k) == TransportOwner(consumers[k].transport)

NotFoundErrors ==
    {"Room not found", "Peer not found", "Transport not found", "Producer not found",
     "Consumer not found"}

\* the request is refused with a not-found error and changes nothing else
Refused ==
    /\ ~reply'.ok
    /\ reply'.error \in NotFoundErrors
    /\ UNCHANGED <<rooms, roomObjs, peerObjs, engine, calls>>

\* C20: connectTransport, produce, pauseProducer, resumeProducer, closeProducer
\* and resumeConsumer issued for peer id p of room r are refused with a
\* not-found error, changing nothing, when the handle they name was created
\* for another peer id or in another Room; and the engine requests they make
\* act on a handle created for their own Room and peer id.
C20_HandlesAreOwned ==
    [][/\ \A r \in RoomIds, p \in PeerIds, t \in DOMAIN transports :
            TransportOwner(t) # <<rooms[r], p>> =>
                /\ ConnectTransportStart(r, p, t) => Refused
                /\ \A k \in Kinds : ProduceStart(r, p, t, k) => Refused
       /\ \A r \in RoomIds, p \in PeerIds, x \in DOMAIN producers :
            ProducerOwner(x) # <<rooms[r], p>> =>
                /\ PauseProducerStart(r, p, x) => Refused
                /\ ResumeProducerStart(r, p, x) => Refused
                /\ CloseProducer(r, p, x) => Refused
       /\ \A r \in RoomIds, p \in PeerIds, k \in DOMAIN consumers :
            ConsumerOwner(k) # <<rooms[r], p>> =>
                (ResumeConsumerStart(r, p, k) => Refused)
       /\ \A c \in InFlight :
            /\ (ConnectTransportDone(c) \/ ProduceDone(c)) =>
                    TransportOwner(c.transport) = <<c.room, c.peerId>>
            /\ (PauseResumeDone(c) /\ c.method = "resumeConsumer") =>
                    ConsumerOwner(c.target) = <<c.room, c.peerId>>
            /\ (PauseResumeDone(c) /\ c.method # "resumeConsumer") =>
                    ProducerOwner(c.target) = <<c.room, c.peerId>>
       /\ \A r \in RoomIds, p \in PeerIds, x \in DOMAIN producers :
            (CloseProducer(r, p, x) /\ reply'.ok) =>
                    /\ ProducerOwner(x) = <<rooms[r], p>>
                    /\ \A y \in DOMAIN producers \ {x} : producers'[y] = producers[y]]_vars

\* a request of a peer of the room that names a live producer of the other
\* peer, refused
C20_Witness ==
    /\ reply.method \in {"pauseProducer", "resumeProducer", "closeProducer"}
    /\ reply.error = "Producer not found"
    /\ Count(reply.roomId) = 2
    /\ \E x \in DOMAIN producers :
            /\ ~producers[x].closed
            /\ producers[x].peerId # reply.peerId
            /\ x \in RegisteredTo(reply.roomId, producers[x].peerId)

\* the session state an error response promises to have left alone
session == <<rooms, roomObjs, peerObjs, transports, producers, consumers>>

\* a step that writes an error response: a handler threw before its first
\* await, or the engine request a handler awaited was rejected
ErrorStep ==
    /\ ~reply'.ok
    /\ \/ reply' # reply
       \/ \E c \in InFlight : calls' = Resume(c) /\ c.pc \in EnginePcs

\* a step in which a handler reaches its first await
FirstAwaitStep == BagCardinality(calls') > BagCardinality(calls)

\* C21: an RPC that ends with an error response leaves the rooms registry, the
\* Room and peer records and every transport, producer and consumer as they
\* were: neither the step up to the handler's first await nor the step that
\* writes the error response changes any of them, so later RPCs find the
\* state they would have found without the call.
C21_ErrorLeavesStateUnchanged ==
    [][(ErrorStep \/ FirstAwaitStep) => UNCHANGED session]_vars

\* a produce whose engine request was rejected, in a room that holds a
\* transport and a producer
C21_Witness ==
    /\ ~reply.ok
    /\ reply.method = "produce"
    /\ reply.error = "Engine error"
    /\ \E k \in DOMAIN peerObjs : peerObjs[k].transports # <<>>

\* a step in which the createRouter request of handler c is rejected
CreateRouterRejected(c) ==
    /\ c.pc = "createRouter"
    /\ calls' = Resume(c)
    /\ ~reply'.ok

\* a step in which a join or getRouterRtpCapabilities for room r reaches its
\* await at pc
RoomCallSuspends(r, pc) ==
    \E c \in BagToSet(calls') :
        /\ calls' = Suspend(c)
        /\ c.method \in {"join", "getRouterRtpCapabilities"}
        /\ c.roomId = r
        /\ c.pc = pc

\* C23: when router allocation fails while creating a room, the call is
\* answered with an error and registers nothing (the rooms map and the Room
\* objects are as before), and a join or getRouterRtpCapabilities that starts
\* while the room id is unregistered allocates a router again; when that
\* allocation resolves the room is registered and the call succeeds.
C23_FailedCreationIsRetried ==
    [][/\ \A c \in InFlight :
            CreateRouterRejected(c) =>
                /\ reply'.method = c.method /\ reply'.roomId = c.roomId
                /\ rooms' = rooms /\ roomObjs' = roomObjs
       /\ \A r \in RoomIds :
            /\ (rooms[r] = 0 /\ FirstAwaitStep /\ RoomCallSuspends(r, "gotRoom")) => FALSE
            /\ (rooms[r] = 0 /\ FirstAwaitStep /\ RoomCallSuspends(r, "createRouter")) =>
                    allocs' # allocs
       /\ \A c \in InFlight :
            (c.pc = "createRouter" /\ calls' = Resume(c) /\ reply'.ok) =>
                /\ rooms[c.roomId] = 0
                /\ rooms'[c.roomId] = Len(roomObjs')
                /\ roomObjs'[Len(roomObjs')].roomId = c.roomId
      ]_vars

\* a join that succeeded in creating the room after an earlier allocation for
\* it had failed: two workers were picked, one Room exists, and it is registered
C23_Witness ==
    /\ calls = EmptyBag
    /\ reply.ok /\ reply.method = "join"
    /\ rooms[reply.roomId] = 1
    /\ Len(roomObjs) = 1
    /\ allocs = <<0, 1>>

\* C24: with N workers nextWorkerIdx is always an index in 0..N-1, successive
\* router allocations go to the workers in cyclic order, and any N consecutive
\* allocations use each worker exactly once.
C24_RoundRobin ==
    LET N == cap.workers
    IN /\ nextWorkerIdx \in 0..(N - 1)
       /\ \A i \in 1..(Len(allocs) - 1) : allocs[i + 1] = (allocs[i] + 1) % N
       /\ allocs # <<>> => nextWorkerIdx = (allocs[Len(allocs)] + 1) % N
       /\ Len(allocs) = N => /\ Range(allocs) = 0..(N - 1)
                            /\ \A i, j \in 1..N : allocs[i] = allocs[j] => i = j

\* more allocations than workers: the window has wrapped round
C24_Witness ==
    /\ cap.workers = MaxWorkers
    /\ Len(allocs) = cap.workers
    /\ allocs[1] = 1
    /\ allocs[cap.workers] = 0

\* a step of a getRouterRtpCapabilities or getProducers handler: the former
\* reaches its await or resumes from it and answers, the latter answers
QueryStep ==
    /\ running'
    /\ \/ \E c \in BagToSet(calls') :
            c.method = "getRouterRtpCapabilities" /\ calls' = Suspend(c)
       \/ \E c \in InFlight :
            /\ c.method = "getRouterRtpCapabilities"
            /\ calls' = Resume(c)
            /\ reply'.method = "getRouterRtpCapabilities"
       \/ reply'.method = "getProducers" /\ reply' # reply

\* C25: getProducers and getRouterRtpCapabilities never change the rooms
\* registry, the Room objects with their routers, or any room's peer map, for
\* existing and for unknown room ids.
C25_QueriesAreReadOnly ==
    [][QueryStep => UNCHANGED <<rooms, roomObjs, peerObjs>>]_vars

\* the peer records the registered rooms hold
RegisteredPeers ==
    {roomObjs[rooms[r]].peers[p] : r \in {q \in RoomIds : rooms[q] # 0}, p \in PeerIds} \ {0}

\* C26: in every reachable state each transport, producer and consumer in
\* the maps of a peer of a registered room is open at the engine; a transport
\* closed on DTLS state 'closed' is therefore no longer in its peer's
\* transports map, nor are the producers and consumers on it in theirs.
C26_BookkeepingMirrorsEngine ==
    \A k \in RegisteredPeers :
        /\ \A t \in Range(peerObjs[k].transports) : transports[t].atEngine = "open"
        /\ \A x \in peerObjs[k].producers : ~producers[x].closed
        /\ \A c \in peerObjs[k].consumers : ~consumers[c].closed

\* C29: leave always completes locally. Whenever the response written last
\* is that of a leave, it is a result, the peer id is not in the peer map of
\* the room registered under the room id, no empty room is registered under
\* it, and every Room of that id taken out of the registry has had its router
\* closed, whatever the state of the peer's transports at the engine (close
\* request unanswered, failed, or done).
C29_LeaveCompletesLocally ==
    reply.method = "leave" =>
        /\ reply.ok
        /\ rooms[reply.roomId] # 0 =>
              /\ ~hasPeer(roomObjs, rooms[reply.roomId], reply.peerId)
              /\ getPeerCount(roomObjs, rooms[reply.roomId]) > 0
        /\ \A o \in DOMAIN roomObjs :
              (o \notin Registered /\ roomObjs[o].roomId = reply.roomId) =>
                  roomObjs[o].routerCloses >= 1

\* a leave answered while the close request of one transport of the peer had
\* failed and that of another is still unanswered
C29_Witness ==
    /\ reply.method = "leave"
    /\ reply.ok
    /\ \E t1, t2 \in DOMAIN transports :
          /\ transports[t1].peerId = reply.peerId
          /\ transports[t2].peerId = reply.peerId
          /\ transports[t1].atEngine = "failed"
          /\ transports[t2].atEngine = "closing"

\* the responses written for line n
ResponsesTo(n) == {i \in DOMAIN sock.written : sock.written[i].line = n}

\* C22: every complete non-blank line received on the socket is waiting for
\* its handler or has exactly one response; the response holds a result or
\* an error, not both and not neither, and carries the id of its request
\* (null for a line that could not be parsed).
C22_OneResponsePerLine ==
    \A n \in DOMAIN sock.lines :
        IF n \in sock.awaiting THEN ResponsesTo(n) = {}
        ELSE /\ Cardinality(ResponsesTo(n)) = 1
             /\ \A i \in ResponsesTo(n) :
                   /\ sock.written[i].result # (sock.written[i].error # 0)
                   /\ sock.written[i].id =
                         IF sock.lines[n].kind = "garbage" THEN "null" ELSE sock.lines[n].id

\* the consume calls of the browser whose promise has resolved
ResolvedCalls == {k \in DOMAIN client.calls : client.calls[k].status = "resolved"}

\* C27: with several consume calls in flight each call resolves with the
\* consumer built from the reply to its own request, no two calls resolve
\* with the same consumer, and every consumer the client holds is attributed
\* to the peer that owns its producer.
C27_ConcurrentConsumesKeptApart ==
    /\ \A k \in ResolvedCalls : client.calls[k].from = k
    /\ \A k1, k2 \in ResolvedCalls :
          client.calls[k1].consumerId = client.calls[k2].consumerId => k1 = k2
    /\ \A c \in DOMAIN client.consumersMap :
          client.consumersMap[c].peerId = OwnerOf(client.consumersMap[c].producerId)

\* C28: a client signaling call that the server has answered with an error
\* has ended: its promise is no longer pending, so the handler awaiting it
\* goes on.
C28_AnsweredCallsHaveEnded ==
    \A k \in DOMAIN client.calls :
        client.calls[k].answer = "error" => client.calls[k].status # "pending"

\* a step in which the join of peer p to room r is decided
JoinDecided(r, p) == gate[r].state[p] = "Joining" /\ gate'[r].state[p] # "Joining"

\* the host of a host-approval room is Active, and is the only peer in the
\* room that was admitted without approval
OneHost(r) ==
    (gate[r].exists /\ gate[r].mode = "host-approval") =>
        /\ gate[r].host # "" => gate[r].state[gate[r].host] = "Active"
        /\ \A p \in gate[r].direct : p = gate[r].host
        /\ Cardinality(gate[r].direct) <= 1

\* C30: in a host-approval room a peer whose join is decided while no host
\* is present becomes host and is Active at once, not AwaitingApproval; a
\* peer whose join is decided while a host is present is AwaitingApproval;
\* and at all times at most one peer of the room was admitted as host, so of
\* two simultaneous first joins exactly one becomes host.
C30_FirstJoinerBecomesHost ==
    [][\A r \in RoomIds :
          /\ \A p \in GatePeers :
                (JoinDecided(r, p) /\ gate'[r].mode = "host-approval") =>
                    IF ~gate[r].exists \/ gate[r].host = ""
                    THEN gate'[r].host = p /\ gate'[r].state[p] = "Active"
                    ELSE gate'[r].host = gate[r].host /\ gate'[r].state[p] = "AwaitingApproval"
          /\ OneHost(r)'
      ]_vars

\* two first joins that were in flight together: one peer is host, the
\* other one, Joining when the host was admitted, is AwaitingApproval
C30_Witness ==
    \E r \in RoomIds :
        /\ gate[r].mode = "host-approval"
        /\ gate[r].host # ""
        /\ gate[r].contenders # {}
        /\ \A q \in gate[r].contenders : gate[r].state[q] = "AwaitingApproval"

----------------------------------------------------------------------------
(* The gateway's invite tokens: CreateInvite and ResolveInvite.  An invite  *)
(* token has an owning room, an optional expiry and a single-use or        *)
(* reusable flag; the browser only builds the /invite/<token> link.         *)

\* the invite tokens one run creates, and the ResolveInvite calls it makes
MaxTokens == 2
MaxResolves == 3

Callers == {"c1", "c2"}

TokenIds == 1 .. MaxTokens

\* CreateInvite(roomId, reusable, expiry) -> token
CreateInvite(r, reusable, expiry) ==
    /\ Len(invites.tokens) < MaxTokens
    /\ invites' = [invites EXCEPT !.tokens =
                      Append(@, [room |-> r, reusable |-> reusable, expiry |-> expiry,
                                 expired |-> FALSE, valid |-> TRUE])]
    /\ UNCHANGED <<server, running, sock, client, gate, e2ee, feed, ui>>

\* the expiry of a token passes
InviteExpires(t) ==
    /\ t \in DOMAIN invites.tokens
    /\ invites.tokens[t].expiry
    /\ ~invites.tokens[t].expired
    /\ invites' = [invites EXCEPT !.tokens[t].expired = TRUE]
    /\ UNCHANGED <<server, running, sock, client, gate, e2ee, feed, ui>>

\* a token that resolves: known, not invalidated, not expired
Live(iv, t) ==
    /\ t \in DOMAIN iv.tokens
    /\ iv.tokens[t].valid
    /\ ~iv.tokens[t].expired

\* ResolveInvite(token) -> roomId, or InviteNotFound, or InviteExpired
Resolution(iv, t) ==
    IF t \notin DOMAIN iv.tokens \/ ~iv.tokens[t].valid THEN "InviteNotFound"
    ELSE IF iv.tokens[t].expired THEN "InviteExpired"
    ELSE iv.tokens[t].room

\* a resolution that leaves a single-use token in place
InvalidateNever(iv, t) == iv.tokens

\* a single-use token is invalidated with its first successful resolution
Invalidate(iv, t) ==
    IF Live(iv, t) /\ ~iv.tokens[t].reusable
    THEN [iv.tokens EXCEPT ![t].valid = FALSE]
    ELSE iv.tokens

\* caller w sends ResolveInvite(t)
ResolveInviteCall(w, t) ==
    /\ \A c \in invites.pending : c[1] # w
    /\ Len(invites.outcomes) + Cardinality(invites.pending) < MaxResolves
    /\ invites' = [invites EXCEPT !.pending = @ \cup {<<w, t>>}]
    /\ UNCHANGED <<server, running, sock, client, gate, e2ee, feed, ui>>

\* the gateway resolves the call of w: lookup and invalidation are one step
ResolveInvite(w, t) ==
    /\ <<w, t>> \in invites.pending
    /\ invites' = [invites EXCEPT
                      !.pending = @ \ {<<w, t>>},
                      !.tokens = Invalidate(invites, t),
                      !.outcomes = Append(@, [token |-> t, caller |-> w,
                                              result |-> Resolution(invites, t),
                                              live |-> Live(invites, t),
                                              raced |-> \E c \in invites.pending :
                                                            c[1] # w /\ c[2] = t])]
    /\ UNCHANGED <<server, running, sock, client, gate, e2ee, feed, ui>>

NextInvites ==
    \/ \E r \in RoomIds, reusable \in BOOLEAN, expiry \in BOOLEAN : CreateInvite(r, reusable, expiry)
    \/ \E t \in TokenIds : InviteExpires(t)
    \/ \E w \in Callers, t \in TokenIds : ResolveInviteCall(w, t)
    \/ \E w \in Callers, t \in TokenIds : ResolveInvite(w, t)

SpecInvites == InitWith(Caps(0, 0, 0, 0, 0)) /\ [][NextInvites]_vars

\* the outcomes of the ResolveInvite calls on token t, in the order resolved
OutcomesOn(t) == SelectSeq(invites.outcomes, LAMBDA o : o.token = t)

SingleUse(t) == t \in DOMAIN invites.tokens /\ ~invites.tokens[t].reusable

----------------------------------------------------------------------------
(* The e2ee worker (e2ee-worker.js) of each participant of one room, and    *)
(* RibbonRTC.init, which creates it and posts the media key to it.  Bytes   *)
(* are symbolic: a frame's data is a sequence of plain bytes, an IV is 12   *)
(* bytes that spell the IV, and AES-GCM output is the plaintext's length    *)
(* plus a 16-byte tag of bytes that can be opened only as a whole, under    *)
(* the key and the IV they were made with.                                  *)

\* the media key every participant derives from the shared room key
MediaKey == "k1"

\* frames handled in one run, and the times RibbonRTC.init runs
MaxFrames == 2
MaxInits == 3

IvLength == 12
TagLength == 16
\* half a 32-bit word: 0x100000000 = HalfWord * HalfWord
HalfWord == 65536

FrameTypes == {"audio", "video"}

\* the lengths of the frames that arrive: empty, shorter than an IV and a tag,
\* and longer
FrameLens == {0, 2, 30}

ByteAt(kind, k, iv, plain, i) == [b |-> kind, key |-> k, iv |-> iv, of |-> plain, i |-> i]

Plain(n) == [i \in 1 .. n |-> ByteAt("plain", "", <<>>, <<>>, i)]

\* Array.subarray(from): an empty array when `from` is past the end
From(data, from) == IF from > Len(data) THEN <<>> ELSE SubSeq(data, from, Len(data))

\* Array.subarray(0, n), clamped to the array
Upto(data, n) == IF n > Len(data) THEN data ELSE SubSeq(data, 1, n)

\* buildIv(counter): the 4 bytes of keyId, then floor(counter / 0x100000000) and
\* counter & 0xffffffff as 32-bit words, each written here as its two halves
buildIv(id, counter) ==
    <<id, (((counter \div HalfWord) \div HalfWord) \div HalfWord) % HalfWord,
          ((counter \div HalfWord) \div HalfWord) % HalfWord,
          (counter \div HalfWord) % HalfWord,
          counter % HalfWord>>

IvBytes(iv) == [i \in 1 .. IvLength |-> ByteAt("iv", "", iv, <<>>, i)]

\* crypto.subtle.encrypt({name: 'AES-GCM', iv}, key, payload)
Encrypted(k, iv, payload) ==
    [i \in 1 .. Len(payload) + TagLength |-> ByteAt("ct", k, iv, payload, i)]

\* crypto.subtle.decrypt succeeds on what encrypt made under this key and IV
Decrypts(k, ivBytes, enc) ==
    /\ Len(enc) >= TagLength
    /\ enc[1].b = "ct"
    /\ enc[1].key = k
    /\ ivBytes = IvBytes(enc[1].iv)
    /\ enc = Encrypted(k, enc[1].iv, enc[1].of)

\* frame.type === undefined ? 0 : 1
headerSize(type) == IF type = "audio" THEN 0 ELSE 1

\* RibbonRTC.init: a new Worker, and setKey posted to it; the worker's message
\* handler starts importKey
RtcInit(w) ==
    /\ e2ee' = [e2ee EXCEPT !.workers[w] =
                   [NewWorker EXCEPT !.exists = TRUE, !.posted = TRUE, !.importing = TRUE],
                            !.inits = @ + 1]
    /\ e2ee.inits < MaxInits
    /\ UNCHANGED <<server, running, sock, client, gate, invites, feed, ui>>

\* crypto.subtle.importKey resolves: the key, its id, and the counter back to 0
ImportKeyDone(w) ==
    /\ e2ee.workers[w].importing
    /\ e2ee' = [e2ee EXCEPT !.workers[w].importing = FALSE,
                            !.workers[w].encryptionKey = MediaKey,
                            !.workers[w].keyId = MediaKey,
                            !.workers[w].encryptCounter = 0]
    /\ UNCHANGED <<server, running, sock, client, gate, invites, feed, ui>>

\* encryptFrame up to its await: without a key the frame is enqueued as it is.
\* A TransformStream calls transform again only when the previous call has
\* settled, so calls overlap only between the audio and the video sender
EncryptFrameStart(w, type, n) ==
    LET wk == e2ee.workers[w]
        f == e2ee.frames + 1
    IN /\ wk.exists
       /\ e2ee.frames < MaxFrames
       /\ IF wk.encryptionKey = ""
          THEN e2ee' = [e2ee EXCEPT !.frames = f,
                           !.sent = [by |-> w, frame |-> f, type |-> type, data |-> Plain(n),
                                     orig |-> Plain(n), posted |-> wk.posted,
                                     how |-> "clear", key |-> ""]]
          ELSE /\ \A c \in wk.encrypting : c.type # type
               /\ e2ee' = [e2ee EXCEPT !.frames = f,
                              !.workers[w].encryptCounter = @ + 1,
                              !.workers[w].encrypting = @ \cup
                                  {[frame |-> f, type |-> type, data |-> Plain(n),
                                    key |-> wk.encryptionKey,
                                    iv |-> buildIv(wk.keyId, wk.encryptCounter)]}]
       /\ UNCHANGED <<server, running, sock, client, gate, invites, feed, ui>>

\* crypto.subtle.encrypt settles: [header][iv][ciphertext+tag] is enqueued, or,
\* in the catch block, the frame as it arrived
EncryptFrameDone(w, c, ok) ==
    LET h == headerSize(c.type)
    IN /\ c \in e2ee.workers[w].encrypting
       /\ e2ee' = [e2ee EXCEPT
              !.workers[w].encrypting = @ \ {c},
              !.used = IF ok THEN @ \cup {[key |-> c.key, iv |-> c.iv, frame |-> c.frame]} ELSE @,
              !.sent = [by |-> w, frame |-> c.frame, type |-> c.type,
                        data |-> IF ok
                                 THEN Upto(c.data, h) \o IvBytes(c.iv)
                                          \o Encrypted(c.key, c.iv, From(c.data, h + 1))
                                 ELSE c.data,
                        orig |-> c.data, posted |-> TRUE,
                        how |-> IF ok THEN "encrypted" ELSE "clear",
                        key |-> IF ok THEN c.key ELSE ""]]
       /\ UNCHANGED <<server, running, sock, client, gate, invites, feed, ui>>

\* decryptFrame on the frame another participant sent last; the await of
\* crypto.subtle.decrypt touches no state and is taken with the rest
DecryptFrame(w) ==
    LET wk == e2ee.workers[w]
        f == e2ee.sent
        h == headerSize(f.type)
        ivBytes == SubSeq(f.data, h + 1, h + IvLength)
        enc == From(f.data, h + IvLength + 1)
    IN /\ wk.exists
       /\ f.how # "none"
       /\ f.by # w
       /\ e2ee.got.input # f
       /\ e2ee' = [e2ee EXCEPT !.got =
              IF wk.encryptionKey = ""
              THEN [by |-> w, input |-> f, keyed |-> FALSE, out |-> "forwarded", data |-> f.data]
              ELSE IF Len(f.data) < h + IvLength + TagLength
              THEN [by |-> w, input |-> f, keyed |-> TRUE, out |-> "forwarded", data |-> f.data]
              ELSE IF Decrypts(wk.encryptionKey, ivBytes, enc)
              THEN [by |-> w, input |-> f, keyed |-> TRUE, out |-> "forwarded",
                    data |-> Upto(f.data, h) \o enc[1].of]
              ELSE [by |-> w, input |-> f, keyed |-> TRUE, out |-> "dropped", data |-> <<>>]]
       /\ UNCHANGED <<server, running, sock, client, gate, invites, feed, ui>>

NextE2ee ==
    \/ \E w \in Participants : RtcInit(w)
    \/ \E w \in Participants : ImportKeyDone(w)
    \/ \E w \in Participants, type \in FrameTypes, n \in FrameLens : EncryptFrameStart(w, type, n)
    \/ \E w \in Participants, ok \in BOOLEAN :
          \E c \in e2ee.workers[w].encrypting : EncryptFrameDone(w, c, ok)
    \/ \E w \in Participants : DecryptFrame(w)

SpecE2ee == InitWith(Caps(0, 0, 0, 0, 0)) /\ [][NextE2ee]_vars

\* C32: a frame the encrypt transform enqueues after setKey was posted to its
\* worker is AES-GCM-encrypted, never the frame as it arrived
C32_NoClearFrameAfterSetKey ==
    (e2ee.sent.how # "none" /\ e2ee.sent.posted) => e2ee.sent.how = "encrypted"

\* C33: no two different frames were encrypted under the same key with the
\* same IV, whichever workers encrypted them
C33_IvNeverReused ==
    \A u1 \in e2ee.used, u2 \in e2ee.used :
        (u1.key = u2.key /\ u1.iv = u2.iv) => u1.frame = u2.frame

\* the round trip alone: what encryptFrame encrypted, decryptFrame with the
\* same key forwards with the original data
RoundTrip ==
    (e2ee.got.keyed /\ e2ee.got.input.how = "encrypted" /\ e2ee.got.input.key = MediaKey)
        => (e2ee.got.out = "forwarded" /\ e2ee.got.data = e2ee.got.input.orig)

\* C39: with the key set on both sides, decryptFrame forwards what encryptFrame
\* encrypted with the original data restored, and anything it does not decrypt
\* is dropped
C39_DecryptRestoresOrDrops ==
    /\ RoundTrip
    /\ (e2ee.got.keyed /\ e2ee.got.out = "forwarded")
          => (e2ee.got.input.how = "encrypted" /\ e2ee.got.data = e2ee.got.input.orig)

----------------------------------------------------------------------------
(* One browser across reconnects (app.js, chat.js, ourtc.js): what each     *)
(* roomJoined registers and creates, the chat messages sent and rendered,   *)
(* and the mic-muted indicator it shows for one remote peer.                *)

\* the roomJoined events one page handles, and notifications on their way
MaxJoins == 3
MaxWire == 2

\* socket 'connect' emits joinRoom and the gateway answers roomJoined; the
\* handler runs to its end: RibbonRTC.init replaces the device, the worker and
\* both transports without closing the old ones, RibbonChat.init registers its
\* listeners again (addEventListener ignores the same function given twice,
\* socket.on and a new arrow function add a listener every time)
RoomJoinedAgain ==
    /\ ui.joins < MaxJoins
    /\ ui' = [ui EXCEPT !.joins = @ + 1,
                        !.held = ui.joins + 1,
                        !.open = @ \cup {ui.joins + 1},
                        !.clickListeners = 1,
                        !.keyListeners = @ + 1,
                        !.chatListeners = @ + 1]
    /\ UNCHANGED <<server, running, sock, client, gate, invites, e2ee, feed>>

\* sendMessage called n times in one event dispatch: a call that finds text
\* clears the input and emits one chatMessage, a call that finds none returns
RECURSIVE sendMessage(_, _)
sendMessage(n, hasText) ==
    IF n = 0 THEN 0
    ELSE IF hasText THEN 1 + sendMessage(n - 1, FALSE)
    ELSE sendMessage(n - 1, FALSE)

\* the user types a message and clicks Send or presses Enter
SendChat(via) ==
    /\ ui.joins >= 1
    /\ ui' = [ui EXCEPT !.sends = (@ + 1) % 2,
                        !.emitted = sendMessage(IF via = "click" THEN ui.clickListeners
                                                ELSE ui.keyListeners, TRUE)]
    /\ UNCHANGED <<server, running, sock, client, gate, invites, e2ee, feed>>

\* a chatMessage arrives: every registered handleIncoming adds it to the panel
IncomingChat ==
    /\ ui.joins >= 1
    /\ ui' = [ui EXCEPT !.incoming = (@ + 1) % 2, !.rendered = ui.chatListeners]
    /\ UNCHANGED <<server, running, sock, client, gate, invites, e2ee, feed>>

\* the remote peer's toggleMic (k = audio) or toggleCamera (k = video): the
\* producer is paused or resumed and pauseProducer or resumeProducer emitted,
\* which the gateway broadcasts as producerPaused or producerResumed
Toggle(k) ==
    /\ Len(ui.wire) < MaxWire
    /\ ui' = [ui EXCEPT !.paused[k] = ~@,
                        !.wire = Append(@, [type |-> IF ui.paused[k] THEN "producerResumed"
                                                     ELSE "producerPaused",
                                            kind |-> k])]
    /\ UNCHANGED <<server, running, sock, client, gate, invites, e2ee, feed>>

\* socket.on('producerPaused') and socket.on('producerResumed')
ProducerNotification ==
    /\ ui.wire # <<>>
    /\ ui' = [ui EXCEPT !.wire = Tail(@),
                        !.micMuted = (Head(ui.wire).type = "producerPaused"),
                        !.last = [type |-> Head(ui.wire).type, kind |-> Head(ui.wire).kind,
                                  before |-> ui.micMuted]]
    /\ UNCHANGED <<server, running, sock, client, gate, invites, e2ee, feed>>

NextUi ==
    \/ RoomJoinedAgain
    \/ \E via \in {"click", "enter"} : SendChat(via)
    \/ IncomingChat
    \/ \E k \in Kinds : Toggle(k)
    \/ ProducerNotification

SpecUi == InitWith(Caps(0, 0, 0, 0, 0)) /\ [][NextUi]_vars

\* C34: once every notification has been handled the indicator shown for the
\* remote peer is the pause state of its audio producer, and a notification
\* about its video producer leaves the indicator as it was
C34_MicMutedFollowsAudio ==
    /\ ui.wire = <<>> => ui.micMuted = ui.paused["audio"]
    /\ ui.last.kind = "video" => ui.micMuted = ui.last.before

\* C36: after any number of roomJoined events a send action has emitted one
\* chatMessage, an incoming chatMessage has been rendered once, and the page
\* holds the transports and the worker of the latest join
C36_OncePerMessageAfterReconnects ==
    ui.joins >= 1 =>
        /\ ui.sends > 0 => ui.emitted = 1
        /\ ui.incoming > 0 => ui.rendered = 1
        /\ ui.held = ui.joins

\* a createWebRtcTransport, produce or consume for peer p in room r is answered
\* 'Room not found' or 'Peer not found' in this step
FailsNotFound(r, p) ==
    /\ reply' # reply
    /\ ~reply'.ok
    /\ reply'.roomId = r
    /\ reply'.peerId = p
    /\ reply'.method \in {"createWebRtcTransport", "produce", "consume"}
    /\ reply'.error \in {"Room not found", "Peer not found"}

\* C35: while a join for peer p in room r is still being handled, no later
\* createWebRtcTransport, produce or consume for p in r is answered 'Room not
\* found' or 'Peer not found'
C35_RequestsTakeEffectInOrder ==
    [][\A c \in InFlight : c.method = "join" => ~FailsNotFound(c.roomId, c.peerId)]_vars

\* C37: every consumer sits on a transport that its peer holds and that was
\* created with consuming = true; a consume without such a transport has not
\* produced a consumer
C37_ConsumersOnReceiveTransport ==
    \A k \in DOMAIN consumers :
        /\ consumers[k].transport \in Range(peerObjs[consumers[k].peer].transports)
        /\ transports[consumers[k].transport].consuming

----------------------------------------------------------------------------
(* The RPC socket's data handler at the level of bytes.  A stream is a      *)
(* sequence of bytes: the letter a, a space, a newline, and the two bytes   *)
(* C3 A9 of one two-byte UTF-8 character; a chunk is a piece of the stream, *)
(* and data.toString() decodes each chunk on its own.                       *)

\* the bytes of one stream, and the bytes of one data event
MaxStream == 5
MaxData == 3

Bytes == {"a", "sp", "nl", "C3", "A9"}

\* well-formed UTF-8: C3 is followed by A9, and A9 follows C3
WellFormed(bs) ==
    \A i \in DOMAIN bs :
        /\ bs[i] = "C3" => (i < Len(bs) /\ bs[i + 1] = "A9")
        /\ bs[i] = "A9" => (i > 1 /\ bs[i - 1] = "C3")

\* streams of newline-terminated lines
Streams ==
    {bs \in UNION {[1 .. n -> Bytes] : n \in 1 .. MaxStream} :
        WellFormed(bs) /\ bs[Len(bs)] = "nl"}

Feeds == {[NoFeed EXCEPT !.stream = bs, !.rest = bs] : bs \in Streams}

\* Buffer.toString(): UTF-8 decoding of one chunk; a byte that does not form a
\* character within the chunk becomes U+FFFD
RECURSIVE toString(_)
toString(bs) ==
    IF bs = <<>> THEN <<>>
    ELSE IF bs[1] = "C3" /\ Len(bs) >= 2 /\ bs[2] = "A9"
    THEN <<"U+00E9">> \o toString(SubSeq(bs, 3, Len(bs)))
    ELSE IF bs[1] \in {"C3", "A9"} THEN <<"U+FFFD">> \o toString(Tail(bs))
    ELSE <<bs[1]>> \o toString(Tail(bs))

\* String.split('\n')
RECURSIVE split(_)
split(text) ==
    IF \A i \in DOMAIN text : text[i] # "nl" THEN <<text>>
    ELSE LET i == CHOOSE j \in DOMAIN text :
                      text[j] = "nl" /\ \A k \in 1 .. j - 1 : text[k] # "nl"
         IN <<SubSeq(text, 1, i - 1)>> \o split(SubSeq(text, i + 1, Len(text)))

\* String.trim()
RECURSIVE trim(_)
trim(line) ==
    IF line = <<>> THEN <<>>
    ELSE IF line[1] = "sp" THEN trim(Tail(line))
    ELSE IF line[Len(line)] = "sp" THEN trim(SubSeq(line, 1, Len(line) - 1))
    ELSE line

\* the lines handed to processMessage: the blank ones skipped, the others trimmed
RECURSIVE handOn(_)
handOn(lines) ==
    IF lines = <<>> THEN <<>>
    ELSE IF trim(Head(lines)) = <<>> THEN handOn(Tail(lines))
    ELSE <<trim(Head(lines))>> \o handOn(Tail(lines))

\* socket.on('data'): buffer += data.toString(); lines = buffer.split('\n');
\* buffer = lines.pop(); processMessage for every line that is not blank
onData(f, chunk) ==
    LET lines == split(f.buffer \o toString(chunk))
    IN [f EXCEPT !.buffer = lines[Len(lines)],
                 !.handed = @ \o handOn(SubSeq(lines, 1, Len(lines) - 1))]

\* the next n bytes of the stream arrive as one data event
DataEvent(n) ==
    /\ n <= Len(feed.rest)
    /\ feed' = [onData(feed, SubSeq(feed.rest, 1, n)) EXCEPT
                   !.rest = SubSeq(feed.rest, n + 1, Len(feed.rest))]
    /\ UNCHANGED <<server, running, sock, client, gate, invites, e2ee, ui>>

NextFraming == \E n \in 1 .. MaxData : DataEvent(n)

SpecFraming == InitRest(Caps(0, 0, 0, 0, 0)) /\ feed \in Feeds /\ [][NextFraming]_vars

\* the whole stream taken as one data event
Unsplit == onData([feed EXCEPT !.rest = <<>>, !.buffer = <<>>, !.handed = <<>>], feed.stream)

\* C38: when the whole stream has arrived, in whatever chunks, the lines handed
\* to processMessage and the tail left in the buffer are those of the stream
\* arriving as one data event
C38_FramingIgnoresChunking ==
    feed.rest = <<>> => (feed.handed = Unsplit.handed /\ feed.buffer = Unsplit.buffer)

====
